---- MODULE Spec2Model ----
(***************************************************************************)
(* Verification model of the wiki knowledge-graph ingestion pipeline:      *)
(*   - the graph store as the Cypher statements of kgraph2/client.py act   *)
(*     on it (SpecStore),                                                  *)
(*   - the buffered, concurrent writer KGraphClient (Spec),                *)
(*   - the hierarchy parser PageParserInner and the uid rules of main.py   *)
(*     (SpecParser),                                                       *)
(*   - the embedding / write loop of main.py (SpecPipeline),               *)
(*   - split_paragraphs of kgraph/parser.py (SpecSplit, SpecSplitLive),    *)
(*   - Chunk.get_links and the mention links of main.py (SpecLinks),       *)
(*   - KGraphClient.ensure_constraints (SpecConstraints),                  *)
(*   - the line-based parser of kgraph/parser.py (SpecArticle),            *)
(*   - the uid key of paragraph chunks in main.py (SpecUid),               *)
(*   - the write calls of empty lists with the producers (SpecProducers).  *)
(***************************************************************************)
EXTENDS Integers, Sequences, FiniteSets, TLC

VARIABLES
    \* SpecNodes, SpecStore: the graph store and one observed statement
    g,          \* the graph store [v: the vertices, e: the edges, each with
                \* the number of LINK relationships between its two ends]
    base,       \* the store as it was before the observed statement ran
    obs,        \* the observed statement: the one executed last, or NoOp
    \* Spec: KGraphClient
    nodeBuf,    \* self._node_buffer
    linkBuf,    \* self._link_buffer
    lock,       \* holder of self._buffer_lock, or "free"
    pc,         \* per producer thread: the writer call it is inside, or Idle
    tasks,      \* every task handed to self._executor, with its state
    sem,        \* free permits of self._semaphore
    shutdown,   \* self._executor.shutdown() has been called
    driverOpen, \* self._driver has not been closed
    cpc,        \* where the closing thread is inside close()
    nextId,     \* identity of the next record a producer passes
    passed,     \* records of the write calls that returned before close()
    overlap,    \* a producer call ran after close() had been called
    raised,     \* threads to which a writer call raised
    \* SpecParser: PageParserInner.__iter__ with the uid rules of main()
    hstack,     \* hierarchy_stack
    nstack,     \* per entry of hierarchy_stack: position in chunks of the
                \* chunk emitted for it, 0 for the page title
    curBlock,   \* current_block
    chunkIndex, \* chunk_index
    chunks,     \* the chunks yielded so far, each with the uids main() derives
    seen,       \* the headings read so far: [title, level]
    nread,      \* number of wikicode nodes read so far
    ppc,        \* "parsing", "done" or "raised"
    doc,        \* the wikicode nodes read so far in this pass
    first,      \* the first pass over the page, once the page is parsed again:
                \* [ran, doc, chunks, ppc]
    \* SpecPipeline: main()
    mpc,        \* where main() is: "load", "pages", "chunks", "close", or ended:
                \* "done", "returned" (source not found), "crashed" (exception)
    pageNo,     \* pages of the source taken so far
    chunkNo,    \* chunks of the current page taken so far
    embedBuf,   \* embed_buffer: the nodes waiting for their embedding
    nodeSeq,    \* number of chunk nodes built so far
    calls,      \* the calls main() has made on the writer, in order
    embedErrs,  \* number of get_embeddings calls that raised
    pageErrs,   \* the pages whose processing raised (logged, recorded)
    \* SpecSplit: split_paragraphs of kgraph/parser.py
    stext,      \* text
    smaxlen,    \* max_len
    soverlap,   \* overlap
    sstart,     \* start
    sout,       \* the sub-chunks yielded so far: [from, to, content]
    spc,        \* "idle", "call" (entered), "loop" or "done"
    \* SpecLinks: Chunk.get_links and the mention links of main()
    gcontent,   \* self.content
    glinks,     \* the list get_links returned, as a set
    gmentions,  \* the mention links main() wrote for the chunk
    gpc,        \* "idle", "call", "links" (get_links returned) or "done"
    \* SpecConstraints: KGraphClient.ensure_constraints
    cons,       \* the labels that have a uniqueness constraint in the store
    epc,        \* 0 outside a call, else the position in the list of labels
    ecalls,     \* number of calls of ensure_constraints so far
    elog,       \* the warnings logged: [call, label]
    eraised,    \* a call of ensure_constraints raised
    \* SpecArticle: parse_article of kgraph/parser.py
    alines,     \* lines
    amax,       \* max_paragraph_len
    ai,         \* i
    ahier,      \* hierarchy: (heading_text, lineno, level)
    aheads,     \* headings_data
    aparas,     \* paragraphs
    aedges,     \* hierarchy_edges
    alinks,     \* link_edges
    asteps,     \* the iterations of the loop so far: [from, next, kind]
    apc,        \* "idle", "loop" or "done" (parse_article returned)
    \* SpecProducers: the write calls that return before the lock
    emptyCalls, \* the write calls made with an empty list, in order
    \* SpecUid: the uid keys of two paragraph chunks
    uchunks,    \* the chunks: [title: page.title, index, content]
    ukeys       \* per chunk handled so far: [key: the string hashed, uid]

storeVars == <<g, base, obs>>
writerVars == <<nodeBuf, linkBuf, lock, pc, tasks, sem, shutdown, driverOpen,
                cpc, nextId, passed, overlap, raised>>
parserVars == <<hstack, nstack, curBlock, chunkIndex, chunks, seen, nread, ppc, doc, first>>
pipeVars == <<mpc, pageNo, chunkNo, embedBuf, nodeSeq, calls, embedErrs, pageErrs>>
splitVars == <<stext, smaxlen, soverlap, sstart, sout, spc>>
linkVars == <<gcontent, glinks, gmentions, gpc>>
consVars == <<cons, epc, ecalls, elog, eraised>>
callVars == <<emptyCalls>>
uidVars == <<uchunks, ukeys>>
articleVars == <<alines, amax, ai, ahier, aheads, aparas, aedges, alinks, asteps, apc>>
vars == <<storeVars, writerVars, parserVars, pipeVars, splitVars, linkVars, consVars, articleVars, callVars, uidVars>>
nonStoreVars == <<writerVars, parserVars, pipeVars, splitVars, linkVars, consVars, articleVars, callVars, uidVars>>
nonWriterVars == <<storeVars, parserVars, pipeVars, splitVars, linkVars, consVars, articleVars, callVars, uidVars>>
nonParserVars == <<storeVars, writerVars, pipeVars, splitVars, linkVars, consVars, articleVars, callVars, uidVars>>
nonPipeVars == <<storeVars, writerVars, parserVars, splitVars, linkVars, consVars, articleVars, callVars, uidVars>>
nonSplitVars == <<storeVars, writerVars, parserVars, pipeVars, linkVars, consVars, articleVars, callVars, uidVars>>
nonLinkVars == <<storeVars, writerVars, parserVars, pipeVars, splitVars, consVars, articleVars, callVars, uidVars>>
nonConsVars == <<storeVars, writerVars, parserVars, pipeVars, splitVars, linkVars, articleVars, callVars, uidVars>>
nonArticleVars == <<storeVars, writerVars, parserVars, pipeVars, splitVars, linkVars, consVars, callVars, uidVars>>
nonCallVars == <<storeVars, writerVars, parserVars, pipeVars, splitVars, linkVars, consVars, articleVars, uidVars>>
nonUidVars == <<storeVars, writerVars, parserVars, pipeVars, splitVars, linkVars, consVars, articleVars, callVars>>

(***************************************************************************)
(* Bounds of the model.                                                    *)
(***************************************************************************)
MaxRows == 2        \* rows of one store statement
BatchSize == 2      \* batch_size of the writer (config: 5000)
MaxConcurrency == 2 \* max_concurrency of the writer (config: 4)
MaxRecords == 3     \* records the producers pass to the writer in one run
MaxCallLen == 3     \* records of one write_nodes / write_links call
MaxNodes == 4       \* wikicode nodes of one page
MaxLevel == 4       \* deepest heading level of a page (MediaWiki: 6)
MaxPages == 2       \* pages of the document source
MaxChunks == 2      \* chunks of one page
EmbedBatchSize == 2 \* EMBED_BATCH_SIZE of main() (32)
ChunkSize == 2      \* chunk_size of the text splitter of PageParser (1000)
MaxTextLen == 6     \* characters of a text given to split_paragraphs
MaxMaxLen == 3      \* largest max_len of split_paragraphs (config: 1000)
MaxOverlap == 2     \* largest overlap of split_paragraphs (config: 50)
MaxContentLen == 6  \* characters of a chunk content given to get_links
MaxEnsureCalls == 2 \* calls of ensure_constraints
MaxLines == 3       \* lines of a file given to parse_article
MaxGlobSize == 3    \* largest max_paragraph_len of parse_article (config: 1000)
MaxEmptyCalls == 1  \* write calls made with an empty list
MaxKeyContent == 4  \* characters of a paragraph content whose uid is built
MaxKeyIndex == 2    \* largest index of a paragraph chunk whose uid is built
PrefixLen == 3      \* characters of the content that enter the uid (main(): 50)

\* Defaults of the configuration (kgraph/config.py)
MaxParagraphLen == 1000
ParaOverlap == 50

(***************************************************************************)
(* The graph store and the two Cypher statements of the writer.            *)
(***************************************************************************)
NodeType == {"Title", "Heading", "Paragraph"}

Uids == {"a", "b"}
Keys == {"p", "q"}
Null == "null"                      \* a key that a dict / a vertex does not carry
Vals == {"v1", "v2"}
PropMaps == [Keys -> Vals \cup {Null}]
NoProps == [k \in Keys |-> Null]
NoVertex == [kind |-> "none", props |-> NoProps]

\* {**n.properties, "uid": n.uid}: one row of a node statement
Rows == [uid : Uids, props : PropMaps]
\* batch[0].keys() without "uid"
RowKeys(row) == {k \in Keys : row.props[k] # Null}

LinkRows == [source : Uids, target : Uids]

EmptyStore == [v |-> [u \in Uids |-> NoVertex], e |-> [p \in Uids \X Uids |-> 0]]
Vertices(st) == {u \in Uids : st.v[u].kind # "none"}

\* "ON MATCH SET n.k = row.k, ..." is a statement only when batch[0] has a
\* key besides uid; with none the text ends in "ON MATCH SET" and the store
\* rejects the whole statement.
NodeCypherValid(keys) == keys # {}

\* Mutant of MergeRow: ON CREATE SET n:<label> without "n += row"
MergeRowCreateBare(st, label, keys, row) ==
    LET old == st.v[row.uid] IN
    IF old.kind = "none"
    THEN [st EXCEPT !.v[row.uid] = [kind |-> label, props |-> NoProps]]
    ELSE [st EXCEPT !.v[row.uid].props =
            [k \in Keys |-> IF k \in keys THEN row.props[k] ELSE old.props[k]]]

\* Mutant of MergeRow: ON MATCH SET n:<label> as well, the kind follows the
\* incoming row
MergeRowRelabel(st, label, keys, row) ==
    LET old == st.v[row.uid] IN
    IF old.kind = "none"
    THEN [st EXCEPT !.v[row.uid] = [kind |-> label, props |-> row.props]]
    ELSE [st EXCEPT !.v[row.uid] =
            [kind |-> label,
             props |-> [k \in Keys |-> IF k \in keys THEN row.props[k] ELSE old.props[k]]]]

\* MERGE (n:Resource {uid: row.uid})
\*   ON CREATE SET n:<label>, n += row
\*   ON MATCH  SET n.k = row.k for k in keys     (a null value removes k)
MergeRow(st, label, keys, row) ==
    LET old == st.v[row.uid] IN
    IF old.kind = "none"
    THEN [st EXCEPT !.v[row.uid] = [kind |-> label, props |-> row.props]]
    ELSE [st EXCEPT !.v[row.uid].props =
            [k \in Keys |-> IF k \in keys THEN row.props[k] ELSE old.props[k]]]

RECURSIVE UnwindNodes(_, _, _, _)
UnwindNodes(st, label, keys, rows) ==
    IF rows = <<>> THEN st
    ELSE UnwindNodes(MergeRow(st, label, keys, Head(rows)), label, keys, Tail(rows))

\* session.execute_write of the node statement: one transaction
ApplyNodeOp(st, op) ==
    IF NodeCypherValid(op.keys) THEN UnwindNodes(st, op.label, op.keys, op.rows) ELSE st

\* Mutant of MatchMergeRow: CREATE (a)-[:LINK]->(b) in place of MERGE
MatchCreateRow(st, row) ==
    IF row.source \in Vertices(st) /\ row.target \in Vertices(st)
    THEN [st EXCEPT !.e[<<row.source, row.target>>] = @ + 1]
    ELSE st

\* MATCH (a:Resource {uid: row.source}) MATCH (b:Resource {uid: row.target})
\* MERGE (a)-[:LINK]->(b): the relationship is created only when there is none
MatchMergeRow(st, row) ==
    IF row.source \in Vertices(st) /\ row.target \in Vertices(st)
    THEN [st EXCEPT !.e[<<row.source, row.target>>] = IF @ = 0 THEN 1 ELSE @]
    ELSE st

RECURSIVE UnwindLinks(_, _)
UnwindLinks(st, rows) ==
    IF rows = <<>> THEN st
    ELSE UnwindLinks(MatchMergeRow(st, Head(rows)), Tail(rows))

ApplyLinkOp(st, op) == UnwindLinks(st, op.rows)

SeqsUpTo(S, n) == UNION {[1..k -> S] : k \in 1..n}

\* The node statements one flush can submit: a group of rows of one type,
\* its SET clause taken from the first row of the group.
NodeOpsOver(labels, rowset) ==
    {[type |-> "node", label |-> l, keys |-> RowKeys(rs[1]), rows |-> rs] :
        l \in labels, rs \in SeqsUpTo(rowset, MaxRows)}
LinkOps == {[type |-> "link", rows |-> rs] : rs \in SeqsUpTo(LinkRows, MaxRows)}
NoOp == [type |-> "none"]

\* SpecNodes: node statements with every combination of properties
RichRows == {r \in Rows : r.props["q"] # "v2"}
NodeOps == NodeOpsOver({"Title", "Heading"}, RichRows)
\* SpecStore: node statements of any type whose rows all carry {p: v1}
PlainRows == {r \in Rows : r.props = [k \in Keys |-> IF k = "p" THEN "v1" ELSE Null]}
PlainOps == NodeOpsOver(NodeType, PlainRows)

StoreStart == g = EmptyStore /\ base = EmptyStore /\ obs = NoOp

\* A worker runs one statement against the store. The statement is either
\* left unobserved (the store moves on) or observed: base keeps the store it
\* ran against and obs the statement, and the observation ends the run.
Exec(op, result, observe) ==
    /\ obs = NoOp
    /\ g' = result
    /\ IF observe THEN base' = g /\ obs' = op ELSE base' = result /\ obs' = NoOp
    /\ UNCHANGED nonStoreVars

ExecNodeBatch ==
    \E op \in NodeOps, o \in BOOLEAN : Exec(op, ApplyNodeOp(g, op), o)
ExecPlainNodeBatch ==
    \E op \in PlainOps, o \in BOOLEAN : Exec(op, ApplyNodeOp(g, op), o)
ExecLinkBatch ==
    \E op \in LinkOps, o \in BOOLEAN : Exec(op, ApplyLinkOp(g, op), o)

(***************************************************************************)
(* KGraphClient: buffers, lock, worker pool, close().                      *)
(***************************************************************************)
Producers == {"p1", "p2"}
Idle == [op |-> "idle"]
\* by_type = {t: [] for t in NodeType}: the groups in the order of the enum
NodeTypeOrder == <<"Title", "Heading", "Paragraph">>

Ids(rows) == {rows[i].id : i \in DOMAIN rows}
ByType(buf, t) == SelectSeq(buf, LAMBDA r : r.kind = t)

\* Mutant of RunBatch: the whole batch is submitted as one task
RunBatchWhole(batch, label) ==
    IF batch = <<>> THEN <<>> ELSE <<[label |-> label, rows |-> batch, st |-> "queued"]>>

\* Mutant of RunBatch: the caller performs the write itself, under the lock
RunBatchInline(batch, label) ==
    IF batch = <<>> THEN <<>> ELSE <<[label |-> label, rows |-> batch, st |-> "ok"]>>

\* _run_batch: for i in range(0, len(batch), batch_size): submit(batch[i:i+batch_size])
RECURSIVE RunBatch(_, _)
RunBatch(batch, label) ==
    IF batch = <<>> THEN <<>>
    ELSE IF Len(batch) <= BatchSize
         THEN <<[label |-> label, rows |-> batch, st |-> "queued"]>>
         ELSE <<[label |-> label, rows |-> SubSeq(batch, 1, BatchSize), st |-> "queued"]>>
              \o RunBatch(SubSeq(batch, BatchSize + 1, Len(batch)), label)

\* Mutant of GroupTasks: the drained buffer is sent as it is, under the label
\* of its first node
GroupTasksMixed(buf, i) ==
    IF buf = <<>> THEN <<>> ELSE RunBatch(buf, buf[1].kind)

\* _flush_nodes_unlocked from "Group by type" on: one _run_batch per non-empty
\* group, in the order of the enum
RECURSIVE GroupTasks(_, _)
GroupTasks(buf, i) ==
    IF i > Len(NodeTypeOrder) THEN <<>>
    ELSE RunBatch(ByType(buf, NodeTypeOrder[i]), NodeTypeOrder[i]) \o GroupTasks(buf, i + 1)

\* The outcome of draining a buffer under the lock: the buffer is replaced
\* by [] first; executor.submit raises RuntimeError once shutdown() was called.
\* [sub: the tasks submitted, err: whether submit raised]
FlushNodesUnlocked(buf) ==
    IF buf = <<>> THEN [sub |-> <<>>, err |-> FALSE]
    ELSE IF shutdown THEN [sub |-> <<>>, err |-> TRUE]
    ELSE [sub |-> GroupTasks(buf, 1), err |-> FALSE]
FlushLinksUnlocked(buf) ==
    IF buf = <<>> THEN [sub |-> <<>>, err |-> FALSE]
    ELSE IF shutdown THEN [sub |-> <<>>, err |-> TRUE]
    ELSE [sub |-> RunBatch(buf, "Links"), err |-> FALSE]

WriterStart ==
    /\ nodeBuf = <<>> /\ linkBuf = <<>> /\ lock = "free"
    /\ pc = [p \in Producers |-> Idle]
    /\ tasks = <<>>
    /\ sem = MaxConcurrency
    /\ shutdown = FALSE /\ driverOpen = TRUE /\ cpc = "run"
    /\ nextId = 1 /\ passed = {} /\ overlap = FALSE /\ raised = {}
    /\ emptyCalls = <<>>

\* The lists a producer passes: n fresh records of one kind (a buffer of
\* mixed kinds comes from several calls).
NewRecords(kind, n) == [i \in 1..n |-> [id |-> nextId + i - 1, kind |-> kind]]
NodeArgs == {NewRecords(k, n) : k \in {"Title", "Heading"}, n \in 1..MaxCallLen}
LinkArgs == {NewRecords("Link", n) : n \in 1..MaxCallLen}

\* "with self._buffer_lock:" entered by a producer for one call
Enter(p, call) ==
    /\ pc[p] = Idle /\ lock = "free"
    /\ lock' = p
    /\ pc' = [pc EXCEPT ![p] = call]
    /\ overlap' = (overlap \/ cpc # "run")

CallWriteNodes(p) ==
    /\ \E args \in NodeArgs :
          /\ nextId + Len(args) - 1 <= MaxRecords
          /\ Enter(p, [op |-> "write_nodes", args |-> args])
          /\ nextId' = nextId + Len(args)
    /\ UNCHANGED <<nonWriterVars, nodeBuf, linkBuf, tasks, sem, shutdown, driverOpen, cpc, passed, raised>>

CallWriteLinks(p) ==
    /\ \E args \in LinkArgs :
          /\ nextId + Len(args) - 1 <= MaxRecords
          /\ Enter(p, [op |-> "write_links", args |-> args])
          /\ nextId' = nextId + Len(args)
    /\ UNCHANGED <<nonWriterVars, nodeBuf, linkBuf, tasks, sem, shutdown, driverOpen, cpc, passed, raised>>

CallFlush(p) ==
    /\ Enter(p, [op |-> "flush", args |-> <<>>])
    /\ UNCHANGED <<nonWriterVars, nodeBuf, linkBuf, tasks, sem, shutdown, driverOpen, cpc, nextId,
                   passed, raised>>

\* Leaving the "with" block of a producer call (normally or by the exception)
Leave(p, err, ids) ==
    /\ lock' = "free"
    /\ pc' = [pc EXCEPT ![p] = Idle]
    /\ raised' = IF err THEN raised \cup {p} ELSE raised
    /\ passed' = IF cpc = "run" THEN passed \cup ids ELSE passed

\* Mutant of ReachedBatchSize: the flush waits until batch_size is exceeded
ExceededBatchSize(buf) == Len(buf) > BatchSize
\* "if len(self._node_buffer) >= self.batch_size:" (and the same for links)
ReachedBatchSize(buf) == Len(buf) >= BatchSize

\* "if not nodes: return" / "if not links: return": a write call with an
\* empty list returns before it takes the lock
WriteNodesEmpty(p) ==
    /\ pc[p] = Idle /\ Len(emptyCalls) < MaxEmptyCalls
    /\ emptyCalls' = Append(emptyCalls, "write_nodes")
    /\ UNCHANGED nonCallVars
WriteLinksEmpty(p) ==
    /\ pc[p] = Idle /\ Len(emptyCalls) < MaxEmptyCalls
    /\ emptyCalls' = Append(emptyCalls, "write_links")
    /\ UNCHANGED nonCallVars

\* Mutant of WriteNodes: a full node buffer makes the call flush both buffers
WriteNodesFlushAll(p) ==
    /\ lock = p /\ pc[p].op = "write_nodes"
    /\ LET buf == nodeBuf \o pc[p].args
           fn == FlushNodesUnlocked(buf)
           fl == FlushLinksUnlocked(linkBuf) IN
       IF ReachedBatchSize(buf)
       THEN /\ nodeBuf' = <<>> /\ linkBuf' = <<>> /\ tasks' = tasks \o fn.sub \o fl.sub
            /\ Leave(p, fn.err \/ fl.err, Ids(pc[p].args))
       ELSE /\ nodeBuf' = buf /\ linkBuf' = linkBuf /\ tasks' = tasks
            /\ Leave(p, FALSE, Ids(pc[p].args))
    /\ UNCHANGED <<nonWriterVars, sem, shutdown, driverOpen, cpc, nextId, overlap>>

\* write_nodes under the lock: extend, and flush when batch_size is reached
WriteNodes(p) ==
    /\ lock = p /\ pc[p].op = "write_nodes"
    /\ LET buf == nodeBuf \o pc[p].args
           f == FlushNodesUnlocked(buf) IN
       IF ReachedBatchSize(buf)
       THEN nodeBuf' = <<>> /\ tasks' = tasks \o f.sub /\ Leave(p, f.err, Ids(pc[p].args))
       ELSE nodeBuf' = buf /\ tasks' = tasks /\ Leave(p, FALSE, Ids(pc[p].args))
    /\ UNCHANGED <<nonWriterVars, linkBuf, sem, shutdown, driverOpen, cpc, nextId, overlap>>

WriteLinks(p) ==
    /\ lock = p /\ pc[p].op = "write_links"
    /\ LET buf == linkBuf \o pc[p].args
           f == FlushLinksUnlocked(buf) IN
       IF ReachedBatchSize(buf)
       THEN linkBuf' = <<>> /\ tasks' = tasks \o f.sub /\ Leave(p, f.err, Ids(pc[p].args))
       ELSE linkBuf' = buf /\ tasks' = tasks /\ Leave(p, FALSE, Ids(pc[p].args))
    /\ UNCHANGED <<nonWriterVars, nodeBuf, sem, shutdown, driverOpen, cpc, nextId, overlap>>

\* Mutant of FlushBody: a buffer below batch_size is left as it is
FlushBodyWhenFull ==
    LET fn == IF ReachedBatchSize(nodeBuf) THEN FlushNodesUnlocked(nodeBuf)
              ELSE [sub |-> <<>>, err |-> FALSE]
        fl == IF ReachedBatchSize(linkBuf) THEN FlushLinksUnlocked(linkBuf)
              ELSE [sub |-> <<>>, err |-> FALSE] IN
    [nb |-> IF ReachedBatchSize(nodeBuf) THEN <<>> ELSE nodeBuf,
     lb |-> IF ReachedBatchSize(linkBuf) /\ ~fn.err THEN <<>> ELSE linkBuf,
     sub |-> IF fn.err THEN <<>> ELSE fn.sub \o fl.sub,
     err |-> fn.err \/ fl.err]

\* Mutant of FlushBody: the buffers are submitted but not replaced by []
FlushBodyKeepsBuffers ==
    LET fn == FlushNodesUnlocked(nodeBuf)
        fl == FlushLinksUnlocked(linkBuf) IN
    [nb |-> nodeBuf, lb |-> linkBuf,
     sub |-> IF fn.err THEN <<>> ELSE fn.sub \o fl.sub, err |-> fn.err \/ fl.err]

\* flush() under the lock: _flush_nodes_unlocked, then _flush_links_unlocked;
\* an exception of the first leaves the link buffer as it is.
\* [nb, lb: the buffers after, sub: the tasks submitted, err]
FlushBody ==
    LET fn == FlushNodesUnlocked(nodeBuf)
        fl == FlushLinksUnlocked(linkBuf) IN
    IF fn.err THEN [nb |-> <<>>, lb |-> linkBuf, sub |-> <<>>, err |-> TRUE]
    ELSE [nb |-> <<>>, lb |-> <<>>, sub |-> fn.sub \o fl.sub, err |-> fl.err]

Flush(p) ==
    /\ lock = p /\ pc[p].op = "flush"
    /\ LET f == FlushBody IN
          /\ nodeBuf' = f.nb /\ linkBuf' = f.lb /\ tasks' = tasks \o f.sub
          /\ Leave(p, f.err, {})
    /\ UNCHANGED <<nonWriterVars, sem, shutdown, driverOpen, cpc, nextId, overlap>>

\* close(): self.flush() ...
CloseEnter ==
    /\ cpc = "run" /\ lock = "free"
    /\ lock' = "main" /\ cpc' = "flushing"
    /\ UNCHANGED <<nonWriterVars, nodeBuf, linkBuf, pc, tasks, sem, shutdown, driverOpen, nextId,
                   passed, overlap, raised>>

CloseFlush ==
    /\ cpc = "flushing" /\ lock = "main"
    /\ LET f == FlushBody IN
          /\ nodeBuf' = f.nb /\ linkBuf' = f.lb /\ tasks' = tasks \o f.sub
    /\ lock' = "free" /\ cpc' = "flushed"
    /\ UNCHANGED <<nonWriterVars, pc, sem, shutdown, driverOpen, nextId, passed, overlap, raised>>

\* ... self._executor.shutdown(wait=True): no new task is accepted ...
CloseShutdown ==
    /\ cpc = "flushed"
    /\ shutdown' = TRUE /\ cpc' = "joining"
    /\ UNCHANGED <<nonWriterVars, nodeBuf, linkBuf, lock, pc, tasks, sem, driverOpen, nextId,
                   passed, overlap, raised>>

\* ... and the call returns when the queue is drained and every pool thread
\* has ended its task
Pending == {i \in DOMAIN tasks : tasks[i].st \notin {"ok", "failed"}}
\* Mutant of ShutdownWait: shutdown(wait=False)
ShutdownNoWait == TRUE
ShutdownWait == Pending = {}

\* ... self._driver.close(), and close() returns
CloseJoin ==
    /\ cpc = "joining" /\ ShutdownWait
    /\ driverOpen' = FALSE /\ cpc' = "closed"
    /\ UNCHANGED <<nonWriterVars, nodeBuf, linkBuf, lock, pc, tasks, sem, shutdown, nextId,
                   passed, overlap, raised>>

\* ThreadPoolExecutor(max_workers=max_concurrency): a pool thread is free
\* when fewer than max_concurrency tasks are being run; it takes the oldest
\* queued task, and _execute_with_semaphore starts
Queued == {i \in DOMAIN tasks : tasks[i].st = "queued"}
Running == {i \in DOMAIN tasks : tasks[i].st \in {"taken", "writing"}}
Oldest(S) == CHOOSE i \in S : \A j \in S : i <= j

\* Mutant of WorkerTake: the pool threads stop taking tasks at shutdown()
WorkerTakeUntilShutdown ==
    /\ ~shutdown
    /\ Cardinality(Running) < MaxConcurrency /\ Queued # {}
    /\ tasks' = [tasks EXCEPT ![Oldest(Queued)].st = "taken"]
    /\ UNCHANGED <<nonWriterVars, nodeBuf, linkBuf, lock, pc, sem, shutdown, driverOpen, cpc, nextId,
                   passed, overlap, raised>>

WorkerTake ==
    /\ Cardinality(Running) < MaxConcurrency /\ Queued # {}
    /\ tasks' = [tasks EXCEPT ![Oldest(Queued)].st = "taken"]
    /\ UNCHANGED <<nonWriterVars, nodeBuf, linkBuf, lock, pc, sem, shutdown, driverOpen, cpc, nextId,
                   passed, overlap, raised>>

\* Mutant of WorkerAcquire: a thread per task and no semaphore, the write of
\* a submitted task starts at once
WorkerAcquireUnbounded(i) ==
    /\ tasks[i].st \in {"queued", "taken"}
    /\ sem' = sem - 1
    /\ tasks' = [tasks EXCEPT ![i].st = "writing"]
    /\ UNCHANGED <<nonWriterVars, nodeBuf, linkBuf, lock, pc, shutdown, driverOpen, cpc, nextId,
                   passed, overlap, raised>>

\* "with self._semaphore:" entered by the thread that runs task i
WorkerAcquire(i) ==
    /\ tasks[i].st = "taken" /\ sem > 0
    /\ sem' = sem - 1
    /\ tasks' = [tasks EXCEPT ![i].st = "writing"]
    /\ UNCHANGED <<nonWriterVars, nodeBuf, linkBuf, lock, pc, shutdown, driverOpen, cpc, nextId,
                   passed, overlap, raised>>

\* Mutant of WorkerEnd: the permit is released only after a successful write
WorkerEndLeaks(i, result) ==
    /\ tasks[i].st = "writing"
    /\ sem' = IF result = "failed" THEN sem ELSE sem + 1
    /\ tasks' = [tasks EXCEPT ![i].st = result]
    /\ UNCHANGED <<nonWriterVars, nodeBuf, linkBuf, lock, pc, shutdown, driverOpen, cpc, nextId,
                   passed, overlap, raised>>

\* session.execute_write returned or raised; either way the "with" block of
\* the semaphore is left, and a raised exception ends in the task's future,
\* which nobody holds
WorkerEnd(i, result) ==
    /\ tasks[i].st = "writing"
    /\ sem' = sem + 1
    /\ tasks' = [tasks EXCEPT ![i].st = result]
    /\ UNCHANGED <<nonWriterVars, nodeBuf, linkBuf, lock, pc, shutdown, driverOpen, cpc, nextId,
                   passed, overlap, raised>>

WriteOk(i) == driverOpen /\ WorkerEnd(i, "ok")
WriteFail(i) == WorkerEnd(i, "failed")

(***************************************************************************)
(* PageParserInner.__iter__ and the uids main() gives to chunks and owners. *)
(* Strings are sequences of characters.                                    *)
(***************************************************************************)
RECURSIVE LStrip(_, _)
LStrip(s, cs) == IF s # <<>> /\ Head(s) \in cs THEN LStrip(Tail(s), cs) ELSE s
RECURSIVE RStrip(_, _)
RStrip(s, cs) ==
    IF s # <<>> /\ s[Len(s)] \in cs THEN RStrip(SubSeq(s, 1, Len(s) - 1), cs) ELSE s
\* str.strip(chars)
StripChars(s, cs) == RStrip(LStrip(s, cs), cs)
\* str.strip()
Strip(s) == StripChars(s, {" "})

RECURSIVE Join(_)
Join(ss) == IF ss = <<>> THEN <<>> ELSE Head(ss) \o Join(Tail(ss))

PageTitle == <<"M">>
\* The titles of the Heading nodes the wikicode of a page can hold: the text
\* between the markers, with the blanks around it and, when the two markers
\* differ in length, the surplus "=" of the longer one.
RawTitles == {<<" ", "A", " ">>, <<"=", " ", "A", " ">>, <<" ", "M", " ">>}
Headings == [level : 1..MaxLevel, title : RawTitles]
\* The other nodes of the wikicode, as str(node)
Texts == {<<" ">>, <<"x">>}

\* str(node) of a Heading node
Markers(n) == [i \in 1..n |-> "="]
HeadingStr(h) == Markers(h.level) \o h.title \o Markers(h.level)

\* get_uid: the digest stands for the string it is computed from
get_uid(content) == <<"sha256:">> \o content
get_heading_uid(page_title, heading_title) == page_title \o <<"#">> \o heading_title
IndexStr(i) == <<"0", "1", "2", "3", "4", "5", "6", "7", "8", "9">>[i + 1]

\* main(): the uid of the node built for a chunk
ChunkUid(type, content, index) ==
    IF type = "Heading"
    THEN get_heading_uid(PageTitle, Strip(StripChars(content, {"="})))
    ELSE get_uid(PageTitle \o <<":", IndexStr(index), ":">> \o content)

\* main(): the source uid of the hierarchy link of a chunk
OwnerUid(owner) ==
    IF owner = PageTitle THEN PageTitle ELSE get_heading_uid(PageTitle, owner)

\* A chunk as yielded, with what main() derives from it; ownerNode and nh
\* record where it was yielded: the stack entry that owns it and the number
\* of headings read before it.
MkChunk(type, content, level, stack, nst) ==
    [type |-> type, content |-> content, index |-> chunkIndex, level |-> level,
     owner |-> stack[Len(stack)],
     uid |-> ChunkUid(type, content, chunkIndex),
     ownerUid |-> OwnerUid(stack[Len(stack)]),
     ownerNode |-> nst[Len(nst)],
     nh |-> Len(seen)]

\* The nodes of wikicode.nodes, as they are kept in doc
HeadingNode(h) == [kind |-> "heading", level |-> h.level, str |-> h.title]
TextNode(text) == [kind |-> "text", level |-> 0, str |-> text]
NoPass == [ran |-> FALSE, doc |-> <<>>, chunks |-> <<>>, ppc |-> "none"]
\* mwparserfromhell.parse(self.page.raw_content): the first pass reads any
\* page, a later pass the nodes of the same page again
Offered(node) == first.ran => (nread < Len(first.doc) /\ first.doc[nread + 1] = node)

ParserStart ==
    /\ hstack = <<PageTitle>> /\ nstack = <<0>>
    /\ curBlock = <<>> /\ chunkIndex = 0 /\ chunks = <<>> /\ seen = <<>>
    /\ nread = 0 /\ ppc = "parsing" /\ doc = <<>> /\ first = NoPass

\* "while len(hierarchy_stack) >= heading_level: hierarchy_stack.pop()"
PopTo(stack, level) == IF Len(stack) >= level THEN SubSeq(stack, 1, level - 1) ELSE stack

\* One iteration of "for node in wikicode.nodes" for a Heading node
ReadHeading ==
    /\ ppc = "parsing" /\ nread < MaxNodes
    /\ nread' = nread + 1 /\ first' = first
    /\ \E h \in Headings :
          /\ Offered(HeadingNode(h))
          /\ doc' = Append(doc, HeadingNode(h))
          /\ LET flushed == IF curBlock # <<>>
                            THEN <<MkChunk("Paragraph", Strip(Join(curBlock)), 0, hstack, nstack)>>
                            ELSE <<>>
                 idx == chunkIndex + Len(flushed)
                 st == PopTo(hstack, h.level)
                 ns == PopTo(nstack, h.level)
                 title == Strip(h.title)
             IN  /\ curBlock' = <<>>
                 /\ seen' = Append(seen, [title |-> title, level |-> h.level])
                 /\ IF st = <<>>
                    THEN \* hierarchy_stack[-1] of an empty list: IndexError
                         /\ chunks' = chunks \o flushed
                         /\ chunkIndex' = idx
                         /\ hstack' = st /\ nstack' = ns
                         /\ ppc' = "raised"
                    ELSE /\ chunks' = chunks \o flushed \o
                               <<[MkChunk("Heading", Strip(HeadingStr(h)), h.level, st, ns)
                                    EXCEPT !.index = idx,
                                           !.uid = ChunkUid("Heading", Strip(HeadingStr(h)), idx)]>>
                         /\ chunkIndex' = idx + 1
                         /\ hstack' = Append(st, title)
                         /\ nstack' = Append(ns, Len(chunks) + Len(flushed) + 1)
                         /\ ppc' = "parsing"
    /\ UNCHANGED nonParserVars

\* One iteration for any other node: "if text.strip() or current_block"
ReadText ==
    /\ ppc = "parsing" /\ nread < MaxNodes
    /\ nread' = nread + 1
    /\ \E text \in Texts :
          /\ Offered(TextNode(text))
          /\ doc' = Append(doc, TextNode(text))
          /\ curBlock' = IF Strip(text) # <<>> \/ curBlock # <<>>
                         THEN Append(curBlock, text) ELSE curBlock
    /\ UNCHANGED <<hstack, nstack, chunkIndex, chunks, seen, ppc, first>>
    /\ UNCHANGED nonParserVars

\* End of wikicode.nodes: "Flush remaining paragraph"
EndOfPage ==
    /\ ppc = "parsing"
    /\ first.ran => nread = Len(first.doc)
    /\ IF curBlock # <<>>
       THEN /\ chunks' = Append(chunks,
                            MkChunk("Paragraph", Strip(Join(curBlock)), 0, hstack, nstack))
            /\ chunkIndex' = chunkIndex + 1
       ELSE UNCHANGED <<chunks, chunkIndex>>
    /\ curBlock' = <<>>
    /\ ppc' = "done"
    /\ UNCHANGED <<hstack, nstack, seen, nread, doc, first>>
    /\ UNCHANGED nonParserVars

\* Mutant of FirstIndex: chunk_index is kept from the pass before
KeptIndex(last) == last
\* "chunk_index = 0" at the start of __iter__
FirstIndex(last) == 0

\* The page is parsed again (iter() on the parser again, or a new parser
\* for the same page): __iter__ starts anew on the same raw_content
ParseAgain ==
    /\ ppc \in {"done", "raised"} /\ ~first.ran
    /\ first' = [ran |-> TRUE, doc |-> doc, chunks |-> chunks, ppc |-> ppc]
    /\ hstack' = <<PageTitle>> /\ nstack' = <<0>>
    /\ curBlock' = <<>> /\ chunkIndex' = FirstIndex(chunkIndex)
    /\ chunks' = <<>> /\ seen' = <<>> /\ nread' = 0 /\ doc' = <<>>
    /\ ppc' = "parsing"
    /\ UNCHANGED nonParserVars

\* text_splitter.split_text(block.content): the content cut into pieces of
\* at most chunk_size characters, none for an empty content
RECURSIVE SplitText(_)
SplitText(content) ==
    IF content = <<>> THEN <<>>
    ELSE IF Len(content) <= ChunkSize THEN <<content>>
    ELSE <<SubSeq(content, 1, ChunkSize)>> \o SplitText(SubSeq(content, ChunkSize + 1, Len(content)))

\* Mutant of SubIndex: chunk_index is incremented once per block
SubIndexOfBlock(idx, i) == idx
\* The index of the i-th chunk yielded for a block that starts at idx:
\* "chunk_index += 1" after every yield
SubIndex(idx, i) == idx + i - 1

\* PageParser.__iter__: the chunks yielded for the blocks of the inner
\* parser, with the uid main() gives each
RECURSIVE OuterChunks(_, _)
OuterChunks(blocks, idx) ==
    IF blocks = <<>> THEN <<>>
    ELSE LET b == Head(blocks)
             subs == IF b.type = "Heading" THEN <<b.content>> ELSE SplitText(b.content)
         IN  [i \in 1..Len(subs) |->
                [content |-> subs[i], index |-> SubIndex(idx, i), type |-> b.type,
                 owner |-> b.owner, uid |-> ChunkUid(b.type, subs[i], SubIndex(idx, i))]]
             \o OuterChunks(Tail(blocks), idx + Len(subs))

(***************************************************************************)
(* main(): per page a Title node, per chunk a node that waits in           *)
(* embed_buffer for its embedding, the links, and the embedding flushes.   *)
(***************************************************************************)
PipeStart ==
    /\ mpc = "load" /\ pageNo = 0 /\ chunkNo = 0
    /\ embedBuf = <<>> /\ nodeSeq = 0 /\ calls = <<>> /\ embedErrs = 0 /\ pageErrs = {}

WriteNodesCall(node) == [op |-> "write_nodes", node |-> node]
WriteLinksCall(src, tgt) == [op |-> "write_links", src |-> src, tgt |-> tgt]

\* Mutant of AttachEmbeddings: the nodes are written as they wait in the
\* buffer, the embedding is attached afterwards
AttachNothing(nodes) == [i \in DOMAIN nodes |-> WriteNodesCall(nodes[i])]

\* "for node, vec in zip(nodes, embeddings): node.properties["embedding"] = vec;
\*  kg_client.write_nodes([node])": the write_nodes calls of one flush
AttachEmbeddings(nodes) ==
    [i \in DOMAIN nodes |-> WriteNodesCall([nodes[i] EXCEPT !.embedding = TRUE])]

\* Mutant of OnPageError: no handler, the exception leaves main()
OnPageErrorPropagate == "crashed"
\* "except Exception as e: logging.error(...); ...; continue": where main()
\* goes on when the processing of a page raised
OnPageError == "pages"

\* "try: doc = XMLMultiPageDoc(xml_path) except FileNotFoundError: ...; return",
\* after the writer was created and ensure_constraints() was called
LoadDoc ==
    /\ mpc = "load"
    /\ \E found \in BOOLEAN : mpc' = IF found THEN "pages" ELSE "returned"
    /\ UNCHANGED <<pageNo, chunkNo, embedBuf, nodeSeq, calls, embedErrs, pageErrs>>
    /\ UNCHANGED nonPipeVars

\* "for page in doc:" yields a page: the Title node is written
StartPage ==
    /\ mpc = "pages" /\ pageNo < MaxPages
    /\ pageNo' = pageNo + 1 /\ chunkNo' = 0
    /\ calls' = Append(calls, WriteNodesCall(
                    [uid |-> <<"page", pageNo + 1>>, type |-> "Title", embedding |-> FALSE]))
    /\ mpc' = "chunks"
    /\ UNCHANGED <<embedBuf, nodeSeq, embedErrs, pageErrs>>
    /\ UNCHANGED nonPipeVars

\* "for chunk in parser:" yields a chunk: its node joins embed_buffer, its
\* hierarchy link and one link per mention are written, and a full
\* embed_buffer is embedded and written; get_embeddings may raise, which
\* ends the page with embed_buffer as it is.
TakeChunk ==
    /\ mpc = "chunks" /\ chunkNo < MaxChunks
    /\ \E type \in {"Heading", "Paragraph"}, mentions \in 0..1, embedOk \in BOOLEAN :
          LET node == [uid |-> <<"chunk", nodeSeq + 1>>, type |-> type, embedding |-> FALSE]
              buf == Append(embedBuf, node)
              links == <<WriteLinksCall(<<"page", pageNo>>, node.uid)>> \o
                       [i \in 1..mentions |-> WriteLinksCall(node.uid, <<"title", i>>)]
          IN  /\ nodeSeq' = nodeSeq + 1 /\ chunkNo' = chunkNo + 1
              /\ IF Len(buf) < EmbedBatchSize
                 THEN /\ embedOk
                      /\ embedBuf' = buf /\ calls' = calls \o links
                      /\ mpc' = "chunks" /\ UNCHANGED <<embedErrs, pageErrs>>
                 ELSE IF embedOk
                 THEN /\ embedBuf' = <<>> /\ calls' = calls \o links \o AttachEmbeddings(buf)
                      /\ mpc' = "chunks" /\ UNCHANGED <<embedErrs, pageErrs>>
                 ELSE /\ embedBuf' = buf /\ calls' = calls \o links
                      /\ mpc' = OnPageError
                      /\ embedErrs' = embedErrs + 1 /\ pageErrs' = pageErrs \cup {pageNo}
    /\ pageNo' = pageNo
    /\ UNCHANGED nonPipeVars

\* The parser raises while the page is iterated: "except Exception: ... continue"
PageRaises ==
    /\ mpc = "chunks"
    /\ mpc' = OnPageError /\ pageErrs' = pageErrs \cup {pageNo}
    /\ UNCHANGED <<pageNo, chunkNo, embedBuf, nodeSeq, calls, embedErrs>>
    /\ UNCHANGED nonPipeVars

\* The parser is exhausted: next page
EndPage ==
    /\ mpc = "chunks"
    /\ mpc' = "pages"
    /\ UNCHANGED <<pageNo, chunkNo, embedBuf, nodeSeq, calls, embedErrs, pageErrs>>
    /\ UNCHANGED nonPipeVars

\* The source is exhausted: "Final flush for remaining embeddings";
\* get_embeddings raising here leaves main() by the exception
FinalFlush ==
    /\ mpc = "pages"
    /\ \E embedOk \in BOOLEAN :
          IF embedBuf = <<>>
          THEN embedOk /\ mpc' = "close" /\ UNCHANGED <<embedBuf, calls, embedErrs>>
          ELSE IF embedOk
          THEN /\ calls' = calls \o AttachEmbeddings(embedBuf) /\ embedBuf' = <<>>
               /\ mpc' = "close" /\ embedErrs' = embedErrs
          ELSE /\ mpc' = "crashed" /\ embedErrs' = embedErrs + 1
               /\ UNCHANGED <<embedBuf, calls>>
    /\ UNCHANGED <<pageNo, chunkNo, nodeSeq, pageErrs>>
    /\ UNCHANGED nonPipeVars

\* kg_client.close()
CloseWriter ==
    /\ mpc = "close"
    /\ calls' = Append(calls, [op |-> "close"])
    /\ mpc' = "done"
    /\ UNCHANGED <<pageNo, chunkNo, embedBuf, nodeSeq, embedErrs, pageErrs>>
    /\ UNCHANGED nonPipeVars

(***************************************************************************)
(* split_paragraphs of kgraph/parser.py. Positions are those of the code    *)
(* (from 0); text[a:b] is Slice(text, a, b).                                *)
(***************************************************************************)
Chars == {"a", " ", "[", "]"}
SplitTexts == UNION {[1..n -> Chars] : n \in 0..MaxTextLen}

Slice(text, a, b) == SubSeq(text, a + 1, b)
Min(a, b) == IF a <= b THEN a ELSE b
Max(a, b) == IF a >= b THEN a ELSE b

\* str.count(cc) for a marker of twice the character c: occurrences that do
\* not overlap, from the left
RECURSIVE Count(_, _)
Count(s, c) ==
    IF Len(s) < 2 THEN 0
    ELSE IF s[1] = c /\ s[2] = c THEN 1 + Count(SubSeq(s, 3, Len(s)), c)
    ELSE Count(Tail(s), c)

\* str.find(cc, from): the lowest position >= from where the marker starts, or -1
Find(s, c, from) ==
    LET hits == {i \in from..(Len(s) - 2) : s[i + 1] = c /\ s[i + 2] = c}
    IN  IF hits = {} THEN -1 ELSE CHOOSE i \in hits : \A j \in hits : i <= j

\* "while end > start and not text[end - 1].isspace(): end -= 1"
RECURSIVE BackToSpace(_, _, _)
BackToSpace(text, start, end) ==
    IF end > start /\ text[end] # " " THEN BackToSpace(text, start, end - 1) ELSE end

\* The end of the sub-chunk that starts at start
ChunkEnd(text, start, max_len) ==
    LET n == Len(text)
        e0 == Min(start + max_len, n)
        e1 == IF e0 < n
              THEN (IF BackToSpace(text, start, e0) = start
                    THEN Min(start + max_len, n) ELSE BackToSpace(text, start, e0))
              ELSE e0
        chunk == Slice(text, start, e1)
        closing == Find(text, "]", e1)
    IN  IF Count(chunk, "[") > Count(chunk, "]")
        THEN (IF closing # -1 THEN closing + 2 ELSE n)
        ELSE e1

\* Mutant of NextStart: the cursor backs up by overlap without the max
NextStartBack(end, ov) == end - ov
\* "start = max(end - overlap, end)"
NextStart(end, ov) == Max(end - ov, end)

SplitIdle ==
    /\ stext = <<>> /\ smaxlen = 1 /\ soverlap = 0
    /\ sstart = 0 /\ sout = <<>> /\ spc = "idle"

\* A call split_paragraphs(text, max_len, overlap)
SplitStart ==
    /\ stext \in SplitTexts /\ smaxlen \in 1..MaxMaxLen /\ soverlap \in 0..MaxOverlap
    /\ sstart = 0 /\ sout = <<>> /\ spc = "call"

\* "text = text.strip(); if not text: return; start = 0; n = len(text)"
SplitEnter ==
    /\ spc = "call"
    /\ stext' = Strip(stext)
    /\ spc' = IF Strip(stext) = <<>> THEN "done" ELSE "loop"
    /\ UNCHANGED <<smaxlen, soverlap, sstart, sout>>
    /\ UNCHANGED nonSplitVars

\* One iteration of "while start < n"
SplitIter ==
    /\ spc = "loop" /\ sstart < Len(stext)
    /\ LET end == ChunkEnd(stext, sstart, smaxlen) IN
          /\ sout' = Append(sout, [from |-> sstart, to |-> end,
                                   content |-> Strip(Slice(stext, sstart, end))])
          /\ IF end >= Len(stext)
             THEN spc' = "done" /\ sstart' = sstart
             ELSE spc' = "loop" /\ sstart' = NextStart(end, soverlap)
    /\ UNCHANGED <<stext, smaxlen, soverlap>>
    /\ UNCHANGED nonSplitVars

(***************************************************************************)
(* Chunk.get_links of kgraph2/models.py and the mention links of main().   *)
(* Positions are those of TLA+ sequences (from 1).                         *)
(***************************************************************************)
ContentChars == {"a", " ", "[", "]", "|"}
Contents == UNION {[1..n -> ContentChars] : n \in 0..MaxContentLen}

\* The first position from j on whose character is in stop, or Len(str) + 1:
\* where a greedy run of characters outside stop ends
RECURSIVE RunEnd(_, _, _)
RunEnd(str, j, stop) ==
    IF j > Len(str) \/ str[j] \in stop THEN j ELSE RunEnd(str, j + 1, stop)

IsAt(str, j, c) == j <= Len(str) /\ str[j] = c

\* A match of \[\[([^\]|]+)(?:\|[^\]]*)?\]\] that starts at position i:
\* [ok, target: group 1, next: the position after the match]
MatchAt(str, i) ==
    LET t1 == RunEnd(str, i + 2, {"]", "|"})
        d1 == IF IsAt(str, t1, "|") THEN RunEnd(str, t1 + 1, {"]"}) ELSE t1
    IN  IF IsAt(str, i, "[") /\ IsAt(str, i + 1, "[") /\ t1 > i + 2
           /\ IsAt(str, d1, "]") /\ IsAt(str, d1 + 1, "]")
        THEN [ok |-> TRUE, target |-> SubSeq(str, i + 2, t1 - 1), next |-> d1 + 2]
        ELSE [ok |-> FALSE, target |-> <<>>, next |-> i + 1]

\* re.findall: the matches from left to right, none overlapping another
RECURSIVE FindAll(_, _)
FindAll(str, i) ==
    IF i > Len(str) THEN <<>>
    ELSE LET m == MatchAt(str, i)
         IN  (IF m.ok THEN <<m.target>> ELSE <<>>) \o FindAll(str, m.next)

ToSet(seq) == {seq[i] : i \in DOMAIN seq}

\* Mutant of TitleUid: the uid of the Title node carries a "TITLE:" prefix
TitleUidPrefixed(title) == <<"TITLE:">> \o title
\* "title_uid = page.title": the uid of the Title node of a page
TitleUid(title) == title
\* "Link(source_uid=chunk_uid, target_uid=target_title)"
MentionLink(target_title) == [source |-> <<"chunk">>, target |-> target_title]

LinksIdle == gcontent = <<>> /\ glinks = {} /\ gmentions = {} /\ gpc = "idle"
\* A chunk with some content, about to be asked for its links
LinksStart == gcontent \in Contents /\ glinks = {} /\ gmentions = {} /\ gpc = "call"

\* "matches = re.findall(...); return list(set(matches))"
GetLinks ==
    /\ gpc = "call"
    /\ glinks' = ToSet(FindAll(gcontent, 1))
    /\ gpc' = "links"
    /\ UNCHANGED <<gcontent, gmentions>>
    /\ UNCHANGED nonLinkVars

\* "for target_title in mentions: kg_client.write_links([Link(...)])"
WriteMentions ==
    /\ gpc = "links"
    /\ gmentions' = {MentionLink(t) : t \in glinks}
    /\ gpc' = "done"
    /\ UNCHANGED <<gcontent, glinks>>
    /\ UNCHANGED nonLinkVars

(***************************************************************************)
(* KGraphClient.ensure_constraints.                                        *)
(***************************************************************************)
ConstraintLabels == <<"Title", "Heading", "Paragraph", "Resource">>
\* The next position of "for label in [...]", 0 when the loop is over and
\* the call returns
AfterLabel(i) == IF i = Len(ConstraintLabels) THEN 0 ELSE i + 1

ConsStart == cons = {} /\ epc = 0 /\ ecalls = 0 /\ elog = {} /\ eraised = FALSE

EnsureCall ==
    /\ epc = 0 /\ ~eraised /\ ecalls < MaxEnsureCalls
    /\ epc' = 1 /\ ecalls' = ecalls + 1
    /\ UNCHANGED <<cons, elog, eraised>>
    /\ UNCHANGED nonConsVars

\* "CREATE CONSTRAINT ... IF NOT EXISTS" committed for the label at hand
EnsureCreate ==
    /\ epc > 0
    /\ cons' = cons \cup {ConstraintLabels[epc]}
    /\ epc' = AfterLabel(epc)
    /\ UNCHANGED <<ecalls, elog, eraised>>
    /\ UNCHANGED nonConsVars

\* Mutant of OnConstraintError: no handler, the exception leaves the call
ConstraintErrorPropagates(i) == [pc |-> 0, raised |-> TRUE, warn |-> {}]
\* "except Exception as e: logging.warning(...)": after the statement for
\* the label at position i raised
OnConstraintError(i) ==
    [pc |-> AfterLabel(i), raised |-> FALSE,
     warn |-> {[call |-> ecalls, label |-> ConstraintLabels[i]]}]

\* session.execute_write raises for the label at hand
EnsureFail ==
    /\ epc > 0
    /\ LET h == OnConstraintError(epc) IN
          epc' = h.pc /\ eraised' = h.raised /\ elog' = elog \cup h.warn
    /\ UNCHANGED <<cons, ecalls>>
    /\ UNCHANGED nonConsVars

(***************************************************************************)
(* The line-based parser of kgraph/parser.py: eval_hierarchy,              *)
(* get_next_glob, process_paragraph_line and the loop of parse_article.    *)
(* Line numbers are those of the code (from 0).                            *)
(***************************************************************************)
NL == "\n"
ArticleChars == {"=", "a", "b", " ", "[", "]", "|", NL}
ArticleTitle == <<"T">>
\* The lines a file is made of, without their line end
LineBodies ==
    {<<>>, <<" ">>, <<"a">>, <<"|", "a">>, <<"[", "[", "a">>, <<"a", "]", "]">>,
     <<"=", "a">>, <<"=", "a", "=">>, <<"=", "=", "a", "=", "=">>,
     <<"=", "=", " ", "b", "=", "=">>, <<"=", "=", "=", "a", "=", "=", "=">>,
     <<"=", "=", "a", "=">>}
\* fh.readlines(): every line keeps its "\n", the last one has it when the
\* file ends with one (and is not empty when it does not)
ReadLines(bodies, endsNL) ==
    [i \in DOMAIN bodies |->
        bodies[i] \o (IF i < Len(bodies) \/ endsNL THEN <<NL>> ELSE <<>>)]
Files ==
    {ReadLines(bodies, endsNL) :
        bodies \in UNION {[1..n -> LineBodies] : n \in 0..MaxLines}, endsNL \in BOOLEAN}
    \ {lines \in Seq(Seq(ArticleChars)) : lines # <<>> /\ lines[Len(lines)] = <<>>}

\* str.strip() / str.rstrip('\n') on a text that may hold line ends
StripWs(s) == StripChars(s, {" ", NL})
RStripNL(s) == RStrip(s, {NL})

\* A local variable of the code: F applied to the value of v, which is
\* computed once
With(v, F(_)) == CHOOSE y \in {F(x) : x \in {v}} : TRUE

\* re.match(r'^(=+)([^=]+)=+$', line): the greedy runs leave no choice;
\* "$" also matches before a last "\n". [ok, level: len(group 1), text: group 2]
HeadingMatch(line) ==
    With(RunEnd(line, 1, ArticleChars \ {"="}), LAMBDA k1 :
    With(RunEnd(line, k1, {"="}), LAMBDA t1 :
    With(RunEnd(line, t1, ArticleChars \ {"="}), LAMBDA e1 :
        [ok |-> /\ k1 > 1 /\ t1 > k1 /\ e1 > t1
                /\ \/ e1 = Len(line) + 1
                   \/ e1 = Len(line) /\ line[e1] = NL,
         level |-> k1 - 1,
         text |-> SubSeq(line, k1, t1 - 1)])))

\* Mutant of PopLevels: only the deeper headings are closed
RECURSIVE PopDeeper(_, _)
PopDeeper(hier, level) ==
    IF hier # <<>> /\ hier[Len(hier)].level > level
    THEN PopDeeper(SubSeq(hier, 1, Len(hier) - 1), level) ELSE hier

\* "while hierarchy_array and hierarchy_array[-1][2] >= level: hierarchy_array.pop()"
RECURSIVE PopLevels(_, _)
PopLevels(hier, level) ==
    IF hier # <<>> /\ hier[Len(hier)].level >= level
    THEN PopLevels(SubSeq(hier, 1, Len(hier) - 1), level) ELSE hier

\* hierarchy_array[-1][0] if hierarchy_array else title
TopHeading(hier, title) == IF hier # <<>> THEN hier[Len(hier)].heading ELSE title

\* eval_hierarchy: [ok: the value returned, hier, heads: the two lists after]
eval_hierarchy(line, title, hierarchy_array, headings_data, lineno) ==
    With(HeadingMatch(line), LAMBDA m :
    With(StripWs(m.text), LAMBDA heading_text :
    With(PopLevels(hierarchy_array, m.level), LAMBDA popped :
        IF ~m.ok
        THEN [ok |-> FALSE, hier |-> hierarchy_array, heads |-> headings_data]
        ELSE [ok |-> TRUE,
              hier |-> Append(popped, [heading |-> heading_text, line |-> lineno,
                                       level |-> m.level]),
              heads |-> Append(headings_data,
                               [title |-> title, heading |-> heading_text, line |-> lineno,
                                parent |-> TopHeading(popped, title)])])))

StartsWith(s, prefix) == Len(s) >= Len(prefix) /\ SubSeq(s, 1, Len(prefix)) = prefix
\* raw.strip().startswith(('{|', '|', '!'))
IsBlock(raw) ==
    \E prefix \in {<<"{", "|">>, <<"|">>, <<"!">>} : StartsWith(StripWs(raw), prefix)
\* '\n'.join(buf)
RECURSIVE JoinLines(_)
JoinLines(buf) ==
    IF buf = <<>> THEN <<>>
    ELSE IF Len(buf) = 1 THEN buf[1]
    ELSE buf[1] \o <<NL>> \o JoinLines(Tail(buf))
\* links_unbalanced
LinksUnbalanced(s) == Count(s, "[") > Count(s, "]")

\* The "while idx < n" loop of get_next_glob from one iteration on:
\* [buf, idx] when the loop is left
RECURSIVE GlobLoop(_, _, _, _, _, _)
GlobLoop(lines, idx, buf, cur_len, is_block, max_size) ==
    IF idx >= Len(lines) THEN [buf |-> buf, idx |-> idx]
    ELSE With(RStripNL(lines[idx + 1]), LAMBDA nxt :
         IF HeadingMatch(nxt).ok THEN [buf |-> buf, idx |-> idx]
         ELSE IF StripWs(nxt) = <<>>
         THEN (IF is_block /\ cur_len < max_size
               THEN [buf |-> Append(buf, nxt), idx |-> idx + 1]
               ELSE [buf |-> buf, idx |-> idx])
         ELSE IF cur_len + Len(nxt) > max_size /\ ~LinksUnbalanced(JoinLines(Append(buf, nxt)))
         THEN [buf |-> buf, idx |-> idx]
         ELSE With(<<idx + 1, Append(buf, nxt), cur_len + Len(nxt)>>, LAMBDA v :
                   GlobLoop(lines, v[1], v[2], v[3], is_block, max_size)))

\* Mutant of AfterLine: the index of the line itself is returned
SameLine(start_index) == start_index
\* "start_index + 1": the index after a heading line, after a blank line, and
\* where the loop of a glob starts
AfterLine(start_index) == start_index + 1

\* get_next_glob: [text, next, is_heading] as returned, and the two lists
\* eval_hierarchy may have changed
get_next_glob(lines, start_index, title, hierarchy_array, headings_data, max_size) ==
    IF start_index >= Len(lines)
    THEN [text |-> <<>>, next |-> start_index, is_heading |-> FALSE,
          hier |-> hierarchy_array, heads |-> headings_data]
    ELSE With(RStripNL(lines[start_index + 1]), LAMBDA raw :
         With(eval_hierarchy(raw, title, hierarchy_array, headings_data, start_index), LAMBDA h :
         IF h.ok
         THEN [text |-> <<>>, next |-> AfterLine(start_index), is_heading |-> TRUE,
               hier |-> h.hier, heads |-> h.heads]
         ELSE IF StripWs(raw) = <<>>
         THEN [text |-> <<>>, next |-> AfterLine(start_index), is_heading |-> FALSE,
               hier |-> hierarchy_array, heads |-> headings_data]
         ELSE With(GlobLoop(lines, AfterLine(start_index), <<raw>>, Len(raw), IsBlock(raw),
                            max_size), LAMBDA loop :
                   [text |-> StripWs(JoinLines(loop.buf)), next |-> loop.idx,
                    is_heading |-> FALSE,
                    hier |-> hierarchy_array, heads |-> headings_data])))

\* split_paragraphs(line) with the defaults of the configuration, as a list
RECURSIVE SplitFrom(_, _, _, _)
SplitFrom(text, start, max_len, ov) ==
    IF start >= Len(text) THEN <<>>
    ELSE With(ChunkEnd(text, start, max_len), LAMBDA end :
             <<StripWs(Slice(text, start, end))>> \o
             (IF end >= Len(text) THEN <<>>
              ELSE With(NextStart(end, ov), LAMBDA next : SplitFrom(text, next, max_len, ov))))
SplitDefault(line) ==
    With(StripWs(line), LAMBDA text : SplitFrom(text, 0, MaxParagraphLen, ParaOverlap))

\* re.findall(r'\[\[([^\]|#]+)', chunk), each as link.split('|')[0].strip()
RECURSIVE LinkTitles(_, _)
LinkTitles(chunk, i) ==
    IF i > Len(chunk) THEN <<>>
    ELSE With(RunEnd(chunk, i + 2, {"]", "|", "#"}), LAMBDA t1 :
         With(SubSeq(chunk, i + 2, t1 - 1), LAMBDA link :
             IF IsAt(chunk, i, "[") /\ IsAt(chunk, i + 1, "[") /\ t1 > i + 2
             THEN <<StripWs(SubSeq(link, 1, RunEnd(link, 1, {"|"}) - 1))>> \o LinkTitles(chunk, t1)
             ELSE With(i + 1, LAMBDA next : LinkTitles(chunk, next))))

\* process_paragraph_line: what it appends to paragraphs, hierarchy_edges
\* and link_edges, from the sub-chunk of index chunk_idx on
RECURSIVE ParagraphRecords(_, _, _, _, _)
ParagraphRecords(pieces, chunk_idx, lineno, title, parent_heading) ==
    IF chunk_idx >= Len(pieces)
    THEN [paragraphs |-> <<>>, hierarchy_edges |-> <<>>, link_edges |-> <<>>]
    ELSE With(pieces[chunk_idx + 1], LAMBDA chunk :
         With(<<title, lineno, chunk_idx>>, LAMBDA node_id :
         With(LinkTitles(chunk, 1), LAMBDA links :
         With(ParagraphRecords(pieces, chunk_idx + 1, lineno, title, parent_heading), LAMBDA rest :
             [paragraphs |-> <<[id |-> node_id, text |-> chunk, title |-> title,
                                line |-> lineno, chunk_idx |-> chunk_idx,
                                parent_heading |-> parent_heading]>> \o rest.paragraphs,
              hierarchy_edges |-> <<[child_id |-> node_id, parent |-> parent_heading,
                                     title |-> title]>> \o rest.hierarchy_edges,
              link_edges |-> [k \in DOMAIN links |-> [from_id |-> node_id, to_title |-> links[k]]]
                             \o rest.link_edges]))))
process_paragraph_line(line, lineno, title, hierarchy_array) ==
    With(SplitDefault(line), LAMBDA pieces :
    With(TopHeading(hierarchy_array, title), LAMBDA parent_heading :
        ParagraphRecords(pieces, 0, lineno, title, parent_heading)))

ArticleIdle ==
    /\ alines = <<>> /\ amax = 1 /\ ai = 0 /\ ahier = <<>> /\ aheads = <<>>
    /\ aparas = <<>> /\ aedges = <<>> /\ alinks = <<>> /\ asteps = <<>> /\ apc = "idle"

\* parse_article has read the lines of a file and is about to enter its loop
ArticleStart ==
    /\ alines \in Files /\ amax \in 1..MaxGlobSize
    /\ ai = 0 /\ ahier = <<>> /\ aheads = <<>>
    /\ aparas = <<>> /\ aedges = <<>> /\ alinks = <<>> /\ asteps = <<>> /\ apc = "loop"

\* One iteration of "while i < len(lines)" (the two results are bound by \E
\* so that each is computed once)
ArticleStep ==
    /\ apc = "loop" /\ ai < Len(alines)
    /\ \E r \in {get_next_glob(alines, ai, ArticleTitle, ahier, aheads, amax)} :
       \E p \in {process_paragraph_line(r.text, ai, ArticleTitle, r.hier)} :
       \E skip \in {r.is_heading \/ r.text = <<>>} :
           /\ ahier' = r.hier /\ aheads' = r.heads
           /\ aparas' = IF skip THEN aparas ELSE aparas \o p.paragraphs
           /\ aedges' = IF skip THEN aedges ELSE aedges \o p.hierarchy_edges
           /\ alinks' = IF skip THEN alinks ELSE alinks \o p.link_edges
           /\ ai' = r.next
           /\ asteps' = Append(asteps, [from |-> ai, next |-> r.next,
                                        kind |-> IF r.is_heading THEN "heading"
                                                 ELSE IF r.text = <<>> THEN "blank" ELSE "glob"])
    /\ UNCHANGED <<alines, amax, apc>>
    /\ UNCHANGED nonArticleVars

\* The loop is left and parse_article returns its dict
ArticleReturn ==
    /\ apc = "loop" /\ ai >= Len(alines)
    /\ apc' = "done"
    /\ UNCHANGED <<alines, amax, ai, ahier, aheads, aparas, aedges, alinks, asteps>>
    /\ UNCHANGED nonArticleVars

(***************************************************************************)
(* The string main() hashes into the uid of a paragraph chunk.             *)
(***************************************************************************)
\* Titles of pages, indexes and contents of paragraph chunks
KeyTitles == {<<"A">>, <<"A", ":", "1">>}
KeyContents == UNION {[1..n -> {"1", ":"}] : n \in 1..MaxKeyContent}
KeyChunks == [title : KeyTitles, index : 1..MaxKeyIndex, content : KeyContents]

\* chunk.content[:50]
ContentPrefix(content) == SubSeq(content, 1, Min(Len(content), PrefixLen))
\* f"{page.title}:{chunk.index}:{chunk.content[:50]}"
ParagraphKey(title, index, content) ==
    title \o <<":", IndexStr(index), ":">> \o ContentPrefix(content)

UidIdle == uchunks = <<>> /\ ukeys = <<>>
\* Two paragraph chunks, of one page or of two, whose uids main() will build
UidStart == uchunks \in [1..2 -> KeyChunks] /\ ukeys = <<>>

\* "chunk_uid = get_uid(f"...")" for the next of the chunks
BuildUid ==
    /\ Len(ukeys) < Len(uchunks)
    /\ LET c == uchunks[Len(ukeys) + 1] IN
          ukeys' = Append(ukeys, [key |-> ParagraphKey(c.title, c.index, c.content),
                                  uid |-> get_uid(ParagraphKey(c.title, c.index, c.content))])
    /\ UNCHANGED uchunks
    /\ UNCHANGED nonUidVars

(***************************************************************************)
(* The specifications. Each runs one component; the variables of the       *)
(* others stay as constructed.                                             *)
(***************************************************************************)
Components == StoreStart /\ WriterStart /\ ParserStart /\ PipeStart
Init == Components /\ SplitIdle /\ LinksIdle /\ ConsStart /\ ArticleIdle /\ UidIdle
Next ==
       \/ \E p \in Producers : CallWriteNodes(p)
       \/ \E p \in Producers : CallWriteLinks(p)
       \/ \E p \in Producers : CallFlush(p)
       \/ \E p \in Producers : WriteNodes(p)
       \/ \E p \in Producers : WriteLinks(p)
       \/ \E p \in Producers : Flush(p)
       \/ CloseEnter \/ CloseFlush \/ CloseShutdown \/ CloseJoin
       \/ WorkerTake
       \/ \E i \in DOMAIN tasks : WorkerAcquire(i)
       \/ \E i \in DOMAIN tasks : WriteOk(i)
       \/ \E i \in DOMAIN tasks : WriteFail(i)
Spec == Init /\ [][Next]_vars

\* The scheduling the liveness claims rest on. A pool thread that can take a
\* task, enter the semaphore or end its write does so (the store write call
\* returns, with a result or with an exception).
WorkerStep ==
    \/ WorkerTake
    \/ \E i \in DOMAIN tasks : WorkerAcquire(i)
    \/ \E i \in DOMAIN tasks : WriteOk(i)
    \/ \E i \in DOMAIN tasks : WriteFail(i)
\* A producer inside "with self._buffer_lock:" runs its block to the end
LockStep == \E p \in Producers : WriteNodes(p) \/ WriteLinks(p) \/ Flush(p)
\* The thread inside close() runs on when it is not blocked
CloseStep == CloseFlush \/ CloseShutdown \/ CloseJoin
SpecLive == Spec /\ WF_vars(WorkerStep) /\ WF_vars(LockStep) /\ WF_vars(CloseStep)

\* The producers and the pool before close() is called, with the write calls
\* of empty lists
NextProducers ==
       \/ \E p \in Producers : CallWriteNodes(p)
       \/ \E p \in Producers : CallWriteLinks(p)
       \/ \E p \in Producers : CallFlush(p)
       \/ \E p \in Producers : WriteNodesEmpty(p)
       \/ \E p \in Producers : WriteLinksEmpty(p)
       \/ \E p \in Producers : WriteNodes(p)
       \/ \E p \in Producers : WriteLinks(p)
       \/ \E p \in Producers : Flush(p)
       \/ WorkerTake
       \/ \E i \in DOMAIN tasks : WorkerAcquire(i)
       \/ \E i \in DOMAIN tasks : WriteOk(i)
       \/ \E i \in DOMAIN tasks : WriteFail(i)
SpecProducers == Init /\ [][NextProducers]_vars

NextNodes == ExecNodeBatch
SpecNodes == Init /\ [][NextNodes]_vars
NextStore == ExecPlainNodeBatch \/ ExecLinkBatch
SpecStore == Init /\ [][NextStore]_vars

NextParser == ReadHeading \/ ReadText \/ EndOfPage \/ ParseAgain
SpecParser == Init /\ [][NextParser]_vars

InitSplit == Components /\ SplitStart /\ LinksIdle /\ ConsStart /\ ArticleIdle /\ UidIdle
NextSplit == SplitEnter \/ SplitIter
SpecSplit == InitSplit /\ [][NextSplit]_vars
\* The generator is run to its end by the "for" statement that consumes it
SpecSplitLive == SpecSplit /\ WF_vars(NextSplit)

InitLinks == Components /\ SplitIdle /\ LinksStart /\ ConsStart /\ ArticleIdle /\ UidIdle
NextLinks == GetLinks \/ WriteMentions
SpecLinks == InitLinks /\ [][NextLinks]_vars

NextConstraints == EnsureCall \/ EnsureCreate \/ EnsureFail
SpecConstraints == Init /\ [][NextConstraints]_vars

InitArticle == Components /\ SplitIdle /\ LinksIdle /\ ConsStart /\ ArticleStart /\ UidIdle
NextArticle == ArticleStep \/ ArticleReturn
SpecArticle == InitArticle /\ [][NextArticle]_vars
\* parse_article runs its loop on: nothing in it waits
SpecArticleLive == SpecArticle /\ WF_vars(NextArticle)

InitUid == Components /\ SplitIdle /\ LinksIdle /\ ConsStart /\ ArticleIdle /\ UidStart
NextUid == BuildUid
SpecUid == InitUid /\ [][NextUid]_vars

NextPipeline == LoadDoc \/ StartPage \/ TakeChunk \/ PageRaises \/ EndPage \/ FinalFlush \/ CloseWriter
SpecPipeline == Init /\ [][NextPipeline]_vars

(***************************************************************************)
(* Claims about the store statements (SpecNodes, SpecStore).               *)
(***************************************************************************)
OpUids(op) == {op.rows[i].uid : i \in DOMAIN op.rows}
RowsOf(op, u) == {op.rows[i] : i \in {j \in DOMAIN op.rows : op.rows[j].uid = u}}
Endpoints(op) == UNION {{op.rows[i].source, op.rows[i].target} : i \in DOMAIN op.rows}
SameGraph(x, y) == Vertices(x) = Vertices(y) /\ x.e = y.e

\* C1: a link batch executed before the node batch that carries its endpoint
\* vertices leaves the same vertex set and edge set as executed after it.
\* Here obs is the link batch, run first against base with result g; N is
\* any node batch naming all endpoints of obs.
C1_LinkBeforeNodesSameGraph ==
    obs.type = "link" =>
        \A N \in PlainOps : Endpoints(obs) \subseteq OpUids(N) =>
            SameGraph(ApplyNodeOp(g, N), ApplyLinkOp(ApplyNodeOp(base, N), obs))

\* C2: after a link batch has executed, the store holds an edge
\* source->target for every link of the batch, also when an endpoint vertex
\* did not exist before (it is created as a stub).
C2_EdgeForEveryLink ==
    obs.type = "link" =>
        \A i \in DOMAIN obs.rows : g.e[<<obs.rows[i].source, obs.rows[i].target>>] > 0

\* C5: applying a node batch twice leaves the same vertices with the same
\* properties as applying it once: g is the store after the first
\* application of obs, and a second application does not change it.
C5_NodeBatchIdempotent ==
    obs.type = "node" => ApplyNodeOp(g, obs) = g

\* C5 witness: a node batch that repeats a uid with rows of different
\* property keys has run and changed the store.
C5_Witness ==
    /\ obs.type = "node" /\ g # base /\ Len(obs.rows) = 2
    /\ obs.rows[1].uid = obs.rows[2].uid
    /\ RowKeys(obs.rows[1]) # RowKeys(obs.rows[2])
    /\ RowKeys(obs.rows[1]) # {}

\* C6 as claimed: any two node batches commute. obs is batch A, applied to
\* base with result g; B is any other node batch.
C6_NodeBatchesCommute ==
    obs.type = "node" =>
        \A B \in NodeOps : ApplyNodeOp(g, B) = ApplyNodeOp(ApplyNodeOp(base, B), obs)

\* Two node batches agree when every uid they share has the same kind and
\* one and the same row in both.
Agree(A, B) ==
    \A u \in OpUids(A) \cap OpUids(B) :
        A.label = B.label /\ Cardinality(RowsOf(A, u) \cup RowsOf(B, u)) = 1

\* C6 amended: two node batches that agree on every uid they share commute:
\* A then B and B then A leave the same vertices, kinds and properties.
C6_AgreeingNodeBatchesCommute ==
    obs.type = "node" =>
        \A B \in NodeOps : Agree(obs, B) =>
            ApplyNodeOp(g, B) = ApplyNodeOp(ApplyNodeOp(base, B), obs)

\* C6 witness: batch A has run and changed the store, and some batch B that
\* shares a uid with A and agrees with it changes the store again.
C6_Witness ==
    /\ obs.type = "node" /\ g # base
    /\ \E B \in NodeOps :
          /\ Agree(obs, B) /\ OpUids(obs) \cap OpUids(B) # {}
          /\ B.keys # obs.keys /\ ApplyNodeOp(g, B) # g

\* C26: every vertex has one kind among Title, Heading, Paragraph, and a
\* node batch that matches an existing uid leaves the kind of that vertex as
\* it was, whatever the kind of the batch.
C26_KindNeverReassigned ==
    /\ \A u \in Vertices(g) : g.v[u].kind \in NodeType
    /\ obs.type = "node" => \A u \in Vertices(base) : g.v[u].kind = base.v[u].kind

\* C26 witness: a node batch of one kind has matched a vertex of another
\* kind and changed its properties.
C26_Witness ==
    /\ obs.type = "node"
    /\ \E u \in OpUids(obs) \cap Vertices(base) :
          base.v[u].kind # obs.label /\ g.v[u].props # base.v[u].props

\* C29: after a node batch (of rows with distinct uids) has executed, the
\* vertex named by each row carries every property of that row with the
\* row's value, whether it was created or matched, also when the rows differ
\* in their property keys or a row has no property besides uid.
C29_RowPropertiesWritten ==
    (obs.type = "node" /\ Cardinality(OpUids(obs)) = Len(obs.rows)) =>
        \A i \in DOMAIN obs.rows :
            /\ obs.rows[i].uid \in Vertices(g)
            /\ \A k \in RowKeys(obs.rows[i]) :
                  g.v[obs.rows[i].uid].props[k] = obs.rows[i].props[k]

\* C30: applying a link batch a second time, with both endpoints of every
\* link present, leaves the edges as the first application left them.
C30_LinkBatchIdempotent ==
    (obs.type = "link" /\ Endpoints(obs) \subseteq Vertices(base)) =>
        ApplyLinkOp(g, obs).e = g.e

\* C30 witness: a link batch that names one pair twice has run with all
\* its endpoints present and created edges.
C30_Witness ==
    /\ obs.type = "link" /\ Endpoints(obs) \subseteq Vertices(base)
    /\ g.e # base.e /\ Len(obs.rows) = 2 /\ obs.rows[1] = obs.rows[2]

(***************************************************************************)
(* Claims about KGraphClient (Spec).                                       *)
(***************************************************************************)
Finished(id) ==
    \E i \in DOMAIN tasks : id \in Ids(tasks[i].rows) /\ tasks[i].st \in {"ok", "failed"}

\* C3: when close() has returned, every record passed by a write call that
\* returned before close() was called is in a submitted batch whose write
\* has finished; no write task is outstanding; if no producer call ran after
\* close() was called both buffers are empty; and the driver is closed only
\* when no write is outstanding.
C3_CloseLosesNothing ==
    /\ cpc = "closed" => /\ \A id \in passed : Finished(id)
                         /\ Pending = {}
                         /\ ~overlap => nodeBuf = <<>> /\ linkBuf = <<>>
    /\ ~driverOpen => Pending = {}

\* C3 witness: close() has returned after producers passed records, some of
\* which were still buffered when close() was called, and no call ran later.
C3_Witness ==
    /\ cpc = "closed" /\ ~overlap /\ Cardinality(passed) = MaxRecords
    /\ \E i \in DOMAIN tasks : Len(tasks[i].rows) < BatchSize
    /\ \E i \in DOMAIN tasks : tasks[i].st = "failed"

\* C4: when the store write of a batch failed, the failure reaches the code
\* that called the writer: close() does not return normally unless a writer
\* call raised.
C4_FailureSurfaces ==
    (cpc = "closed" /\ \E i \in DOMAIN tasks : tasks[i].st = "failed") => raised # {}

Writing == {i \in DOMAIN tasks : tasks[i].st = "writing"}

\* C13: in every reachable state the number of store writes in flight is at
\* most max_concurrency (and it is the number of semaphore permits taken).
C13_WritesWithinCeiling ==
    /\ Cardinality(Writing) <= MaxConcurrency
    /\ Cardinality(Writing) = MaxConcurrency - sem

\* C13 witness: max_concurrency writes are in flight while a further
\* submitted batch waits, with both producers having passed records.
C13_Witness ==
    /\ Cardinality(Writing) = MaxConcurrency /\ Queued # {}
    /\ nextId > MaxRecords

\* The thread that holds the buffer lock can leave its critical section
LockHolderCanLeave ==
    \/ lock = "free"
    \/ lock = "main" /\ ENABLED CloseFlush
    \/ lock \in Producers /\ ENABLED (WriteNodes(lock) \/ WriteLinks(lock) \/ Flush(lock))

\* C14: no store write is performed under the buffer lock: the thread that
\* holds the lock never waits for a write (it can always leave), and the
\* step that releases the lock only drains a buffer and hands batches to the
\* pool: the tasks it adds are queued, not written, and no other task moves.
C14_NoWriteUnderLock ==
    /\ []LockHolderCanLeave
    /\ [][(lock # "free" /\ lock' = "free") =>
            /\ Len(tasks') >= Len(tasks)
            /\ \A i \in DOMAIN tasks' :
                  IF i <= Len(tasks) THEN tasks'[i] = tasks[i] ELSE tasks'[i].st = "queued"
            /\ sem' = sem]_vars

\* C14 witness: a producer holds the buffer lock while a store write is in
\* flight and another batch is queued.
C14_Witness ==
    /\ lock \in Producers /\ Writing # {} /\ Queued # {}

\* C15: write_nodes appends to the node buffer and flushes it exactly when
\* its length has reached batch_size after the append, so whenever no call
\* is inside the writer the node buffer holds fewer than batch_size records;
\* the same for write_links and the link buffer.
C15_WriteFlushesAtBatchSize ==
    /\ [](lock = "free" => Len(nodeBuf) < BatchSize /\ Len(linkBuf) < BatchSize)
    /\ [][\A p \in Producers :
            /\ (pc[p].op = "write_nodes" /\ pc'[p] = Idle) =>
                  /\ linkBuf' = linkBuf
                  /\ IF Len(nodeBuf) + Len(pc[p].args) >= BatchSize
                     THEN nodeBuf' = <<>>
                     ELSE nodeBuf' = nodeBuf \o pc[p].args /\ tasks' = tasks
            /\ (pc[p].op = "write_links" /\ pc'[p] = Idle) =>
                  /\ nodeBuf' = nodeBuf
                  /\ IF Len(linkBuf) + Len(pc[p].args) >= BatchSize
                     THEN linkBuf' = <<>>
                     ELSE linkBuf' = linkBuf \o pc[p].args /\ tasks' = tasks]_vars

\* C15 witness: a write_nodes call has flushed a buffer of exactly
\* batch_size records while the link buffer stays one below batch_size.
C15_Witness ==
    /\ lock = "free" /\ cpc = "run" /\ nodeBuf = <<>>
    /\ Len(linkBuf) = BatchSize - 1
    /\ \E i \in DOMAIN tasks : tasks[i].label # "Links" /\ Len(tasks[i].rows) = BatchSize

\* flush() raises instead of returning: executor.submit after shutdown()
FlushRaises == shutdown /\ (nodeBuf # <<>> \/ linkBuf # <<>>)
\* A step in which a flush() call (of a producer or of close()) ends
FlushEnds ==
    \/ \E p \in Producers : pc[p].op = "flush" /\ pc'[p] = Idle
    \/ cpc = "flushing" /\ cpc' = "flushed"

\* C16: when flush() returns, both buffers are empty and every record that
\* was buffered has been submitted for writing, whatever the buffer sizes.
C16_FlushSubmitsAll ==
    [][(FlushEnds /\ ~FlushRaises) =>
          /\ nodeBuf' = <<>> /\ linkBuf' = <<>>
          /\ \A id \in Ids(nodeBuf) \cup Ids(linkBuf) :
                \E i \in DOMAIN tasks' : id \in Ids(tasks'[i].rows)]_vars

\* C16 witness: before close(), buffers below batch_size were flushed: a
\* node batch and a link batch of fewer than batch_size rows are submitted
\* and both buffers are empty.
C16_Witness ==
    /\ lock = "free" /\ cpc = "run" /\ nodeBuf = <<>> /\ linkBuf = <<>>
    /\ \E i \in DOMAIN tasks : tasks[i].label = "Links" /\ Len(tasks[i].rows) < BatchSize
    /\ \E i \in DOMAIN tasks : tasks[i].label # "Links" /\ Len(tasks[i].rows) < BatchSize

\* The tasks a step adds, and the rows of those with one label, in order
AddedTasks == SubSeq(tasks', Len(tasks) + 1, Len(tasks'))
RECURSIVE RowsOfLabel(_, _)
RowsOfLabel(ts, l) ==
    IF ts = <<>> THEN <<>>
    ELSE (IF Head(ts).label = l THEN Head(ts).rows ELSE <<>>) \o RowsOfLabel(Tail(ts), l)
\* The records a step takes out of the buffers and the call's argument
CallArgs ==
    IF lock \in Producers /\ pc[lock].op \in {"write_nodes", "write_links"}
    THEN pc[lock].args ELSE <<>>
DrainedOf(kind) ==
    LET kept == Ids(nodeBuf') \cup Ids(linkBuf')
    IN  SelectSeq(nodeBuf \o linkBuf \o CallArgs, LAMBDA r : r.kind = kind /\ r.id \notin kept)
KindOfLabel(l) == IF l = "Links" THEN "Link" ELSE l

\* C17: every submitted store operation carries between 1 and batch_size
\* rows; the operations one drain submits for one kind are consecutive
\* slices of the drained rows of that kind, each of exactly batch_size rows
\* except possibly the last.
C17_SlicesOfBatchSize ==
    /\ [](\A i \in DOMAIN tasks : Len(tasks[i].rows) \in 1..BatchSize)
    /\ [][Len(tasks') > Len(tasks) =>
            \A l \in {"Title", "Heading", "Paragraph", "Links"} :
               /\ RowsOfLabel(AddedTasks, l) = DrainedOf(KindOfLabel(l))
               /\ \A i \in DOMAIN AddedTasks :
                     (AddedTasks[i].label = l /\ Len(AddedTasks[i].rows) < BatchSize) =>
                        \A j \in DOMAIN AddedTasks : j > i => AddedTasks[j].label # l]_vars

\* C17 witness: a drained buffer of more than batch_size rows of one kind was
\* submitted as a full slice followed by a shorter one.
C17_Witness ==
    \E i \in DOMAIN tasks :
        /\ i + 1 \in DOMAIN tasks
        /\ tasks[i].label = tasks[i + 1].label
        /\ Len(tasks[i].rows) = BatchSize /\ Len(tasks[i + 1].rows) < BatchSize
        /\ tasks[i + 1].rows[1].id = tasks[i].rows[BatchSize].id + 1

(***************************************************************************)
(* Claims about the hierarchy parser and the uids (SpecParser).            *)
(***************************************************************************)
Last(S) == CHOOSE j \in S : \A k \in S : k <= j

\* The title of the nearest enclosing heading of a chunk, from the headings
\* read before it: for a paragraph the most recent one, for a heading of
\* level L the most recent one of a level below L, else the page title.
EnclosingTitle(c) ==
    LET below == {j \in 1..c.nh : c.type = "Paragraph" \/ seen[j].level < c.level}
    IN  IF below = {} THEN PageTitle ELSE seen[Last(below)].title

\* C7: the hierarchy_owner of every yielded chunk is the title of its
\* nearest enclosing heading, or the page title when there is none, for
\* every sequence of heading levels.
C7_OwnerIsNearestEnclosing ==
    \A i \in DOMAIN chunks : chunks[i].owner = EnclosingTitle(chunks[i])

\* C8: iterating the parser never raises, whatever the document holds
\* (no node, any heading level from 1 on, any title).
C8_ParserNeverRaises == ppc # "raised"

\* The uid of the node main() emitted for the owner of a chunk: the Title
\* node of the page, or the Heading node of the owning heading.
OwnerNodeUid(c) == IF c.ownerNode = 0 THEN PageTitle ELSE chunks[c.ownerNode].uid

\* C9: the source uid main() computes for the hierarchy link of a chunk is
\* the uid of the node emitted for the chunk's owner.
C9_OwnerUidIsNodeUid ==
    \A i \in DOMAIN chunks : chunks[i].ownerUid = OwnerNodeUid(chunks[i])

\* The nesting level of the heading held at position i of hierarchy_stack
\* (the page title at the bottom has none)
StackLevel(i) == chunks[nstack[i]].level
StackHeadings == {i \in DOMAIN nstack : nstack[i] # 0}

\* C27: at every point of the parse the headings on the hierarchy stack have
\* strictly increasing nesting levels from bottom to top; in particular no
\* two entries share a level.
C27_StackLevelsIncrease ==
    \A i, j \in StackHeadings : i < j => StackLevel(i) < StackLevel(j)

\* C23: parsing the same page twice yields the same chunk sequence
\* (content, index, type, owner) with the same uids, from the inner parser
\* and from PageParser, and ends the same way.
C23_SecondPassSame ==
    (first.ran /\ ppc \in {"done", "raised"}) =>
        /\ ppc = first.ppc
        /\ chunks = first.chunks
        /\ OuterChunks(chunks, 0) = OuterChunks(first.chunks, 0)

\* C23 witness: a page with a paragraph that is split and a heading has
\* been parsed a second time.
C23_Witness ==
    /\ first.ran /\ ppc = "done" /\ Len(seen) >= 1
    /\ Len(OuterChunks(chunks, 0)) > Len(chunks)

OfType(cs, t) == SelectSeq(cs, LAMBDA c : c.type = t)
ContentsOf(cs) == [k \in DOMAIN cs |-> cs[k].content]
OwnersOf(cs) == [k \in DOMAIN cs |-> cs[k].owner]

ChunkWrites == {i \in DOMAIN calls : calls[i].op = "write_nodes" /\ calls[i].node.type # "Title"}

\* C10: every Heading or Paragraph node passed to write_nodes carries its
\* embedding when it is passed, so no chunk node reaches the writer's
\* buffer or a batch without one.
C10_ChunkNodesWrittenEmbedded ==
    \A i \in ChunkWrites : calls[i].node.embedding

\* C10 witness: chunk nodes were written by a flush in the page loop and by
\* the final flush, after a get_embeddings call had raised.
C10_Witness ==
    /\ mpc = "done" /\ embedErrs > 0
    /\ Cardinality(ChunkWrites) = nodeSeq /\ nodeSeq > EmbedBatchSize

\* The write_nodes call for the n-th chunk node / the Title node of page k
NodeWritten(n) ==
    \E i \in DOMAIN calls : calls[i].op = "write_nodes" /\ calls[i].node.uid = <<"chunk", n>>
TitleWritten(k) ==
    \E i \in DOMAIN calls : calls[i].op = "write_nodes" /\ calls[i].node.uid = <<"page", k>>
\* The chunk nodes of page k, from their hierarchy links
ChunksOfPage(k) ==
    {calls[i].tgt[2] : i \in {j \in DOMAIN calls :
                                calls[j].op = "write_links" /\ calls[j].src = <<"page", k>>}}

\* C11: an embedding failure costs only the vector, never the node write:
\* when main() has ended after a get_embeddings call raised, every chunk
\* node built has been passed to write_nodes.
C11_EmbedFailureKeepsNodeWrite ==
    (mpc \in {"done", "crashed"} /\ embedErrs > 0) => \A n \in 1..nodeSeq : NodeWritten(n)

\* C12: when the processing of a page raises, the error is recorded and the
\* loop goes on with the next page: every page taken from the source has its
\* Title node written, and when main() is done the chunk nodes of every page
\* have been passed to write_nodes.
C12_PageErrorContinues ==
    /\ [](\A k \in 1..pageNo : TitleWritten(k))
    /\ [](mpc = "done" => \A k \in 1..pageNo : \A n \in ChunksOfPage(k) : NodeWritten(n))
    /\ [][pageErrs' # pageErrs => mpc' = "pages"]_vars

\* C12 witness: the first page raised, the second page did not, and the
\* Title node and the chunk nodes of the second page were written.
C12_Witness ==
    /\ mpc = "done" /\ pageErrs = {1} /\ pageNo = 2
    /\ TitleWritten(2) /\ ChunksOfPage(2) # {}
    /\ \A n \in ChunksOfPage(2) : NodeWritten(n)

(***************************************************************************)
(* Claims about split_paragraphs (SpecSplit).                              *)
(***************************************************************************)
\* C18: with overlap > 0 and a text longer than max_len, every sub-chunk
\* after the first begins exactly overlap characters before the end of the
\* previous one, except when that would not advance the cursor, in which
\* case it begins at the previous sub-chunk's end.
C18_SubChunksOverlap ==
    (spc \in {"loop", "done"} /\ soverlap > 0 /\ Len(stext) > smaxlen) =>
        \A k \in 2..Len(sout) :
            sout[k].from = IF sout[k - 1].to - soverlap > sout[k - 1].from
                           THEN sout[k - 1].to - soverlap
                           ELSE sout[k - 1].to

\* s[n:], and a text without its whitespace
DropLead(str, n) == SubSeq(str, n + 1, Len(str))
SpacesRemoved(str) == SelectSeq(str, LAMBDA c : c # " ")
\* The sub-chunks in order, each but the first without its leading overlap
\* characters, concatenated
Rebuilt ==
    Join([k \in DOMAIN sout |->
            IF k = 1 THEN sout[k].content ELSE DropLead(sout[k].content, soverlap)])

\* C19: for a text longer than max_len, the sub-chunks in order, each but the
\* first without its leading overlap characters, concatenate back to the
\* text up to whitespace.
C19_ChunksRebuildText ==
    (spc = "done" /\ Len(stext) > smaxlen) =>
        SpacesRemoved(Rebuilt) = SpacesRemoved(stext)

\* Every "]]" of the text closes an earlier "[[" and every "[[" is closed
RECURSIVE Nested(_, _)
Nested(str, depth) ==
    IF depth < 0 THEN FALSE
    ELSE IF Len(str) < 2 THEN depth = 0
    ELSE IF str[1] = "[" /\ str[2] = "[" THEN Nested(SubSeq(str, 3, Len(str)), depth + 1)
    ELSE IF str[1] = "]" /\ str[2] = "]" THEN Nested(SubSeq(str, 3, Len(str)), depth - 1)
    ELSE Nested(Tail(str), depth)
Balanced(str) == Count(str, "[") = Count(str, "]") /\ Nested(str, 0)

\* C20: for a text in which "[[" and "]]" are balanced, every sub-chunk
\* yielded holds as many "[[" as "]]", for every max_len.
C20_ChunksBalanced ==
    (spc \in {"loop", "done"} /\ Balanced(stext)) =>
        \A k \in DOMAIN sout : Count(sout[k].content, "[") = Count(sout[k].content, "]")

\* C21: for every text, every max_len >= 1 and every overlap >= 0 (also
\* overlap >= max_len) split_paragraphs terminates after finitely many
\* sub-chunks: the cursor strictly advances on every iteration, every
\* sub-chunk spans at least one character, and the call ends.
C21_SplitTerminates ==
    /\ [][(spc = "loop" /\ spc' = "loop") => sstart' > sstart]_vars
    /\ [](\A k \in DOMAIN sout : sout[k].to > sout[k].from /\ sout[k].to <= Len(stext))
    /\ [](spc # "call" => Len(sout) <= Len(stext))
    /\ <>(spc = "done")

\* C21 witness: a call with overlap >= max_len has ended after three or
\* more sub-chunks.
C21_Witness ==
    /\ spc = "done" /\ soverlap >= smaxlen /\ Len(sout) >= 3

(***************************************************************************)
(* Claims about link extraction and mention links (SpecLinks).             *)
(***************************************************************************)
\* C22: get_links returns exactly the set of the targets of the references
\* [[target]] and [[target|display]] of the content, each target trimmed of
\* surrounding whitespace and each distinct target once.
C22_LinksAreTrimmedTargets ==
    gpc \in {"links", "done"} =>
        glinks = {Strip(t) : t \in ToSet(FindAll(gcontent, 1))}

C25_ConstraintFailureContained ==
    /\ [](~eraised)
    /\ [][epc > 0 =>
            /\ epc' = AfterLabel(epc)
            /\ cons \subseteq cons' /\ cons' \subseteq cons \cup {ConstraintLabels[epc]}
            /\ (cons' = cons /\ ConstraintLabels[epc] \notin cons) =>
                   [call |-> ecalls, label |-> ConstraintLabels[epc]] \in elog']_vars

\* C25 witness: in the first call the statement for Title failed, the three
\* other constraints were created and the call returned.
C25_Witness ==
    /\ ecalls = 1 /\ epc = 0
    /\ elog = {[call |-> 1, label |-> "Title"]}
    /\ cons = {"Heading", "Paragraph", "Resource"}

(***************************************************************************)
(* Claims about the progress of KGraphClient (SpecLive).                   *)
(***************************************************************************)
\* C31: provided every store write call returns, close() returns once it is
\* called (from then on it is never left waiting for good); the buffer lock
\* is always released again; and every submitted batch is executed: again
\* and again no submitted batch is left unexecuted.
C31_CloseReturns ==
    /\ (cpc # "run") ~> (cpc = "closed")
    /\ []<>(lock = "free")
    /\ []<>(Pending = {})

\* C31 witness: close() has returned although a batch it submitted itself
\* had to wait for a pool thread, and producers called the writer after
\* close() was called.
C31_Witness ==
    /\ cpc = "closed" /\ overlap
    /\ Len(tasks) > MaxConcurrency
    /\ \A i \in DOMAIN tasks : tasks[i].st \in {"ok", "failed"}

(***************************************************************************)
(* Claims about the end of main() (SpecPipeline).                          *)
(***************************************************************************)
CloseCalls == {i \in DOMAIN calls : calls[i].op = "close"}

\* C32: on every execution of the pipeline, when the program has ended
\* close() was called on the writer exactly once, also when the document
\* source could not be read, when the final embedding flush failed, or when
\* a page failed.
C32_ClosedExactlyOnce ==
    /\ Cardinality(CloseCalls) <= 1
    /\ mpc \in {"done", "returned", "crashed"} => Cardinality(CloseCalls) = 1

(***************************************************************************)
(* Claims about the batches and the buffers of KGraphClient (Spec).        *)
(***************************************************************************)
NodeTasks == {i \in DOMAIN tasks : tasks[i].label # "Links"}

\* C33: every node batch submitted to the store has rows of a single kind
\* and is written under the label of that kind, also when one flush drains
\* nodes of different kinds; a link batch carries links only.
C33_NodeBatchesOfOneKind ==
    \A i \in DOMAIN tasks : \A j \in DOMAIN tasks[i].rows :
        tasks[i].rows[j].kind = KindOfLabel(tasks[i].label)

\* C33 witness: one flush drained a Heading node buffered before a Title
\* node and submitted them as two batches, the Title batch first.
C33_Witness ==
    \E i \in NodeTasks :
        /\ i + 1 \in NodeTasks
        /\ tasks[i].label = "Title" /\ tasks[i + 1].label = "Heading"
        /\ tasks[i].rows[1].id > tasks[i + 1].rows[1].id

(***************************************************************************)
(* Claims about the line-based parser (SpecArticle, SpecArticleLive).      *)
(***************************************************************************)
\* Line j of the file, as the parser looks at it
LineAt(j) == RStripNL(alines[j + 1])
\* A well-formed heading line: k >= 1 "=", a text of at least one character
\* none of which is "=", and m >= 1 "=" (the two markers need not be equal)
Marked(line, k, m) ==
    /\ k >= 1 /\ m >= 1 /\ k + m < Len(line)
    /\ \A i \in 1..Len(line) : (line[i] = "=") <=> (i <= k \/ i > Len(line) - m)
WellFormed(line) == \E k, m \in 1..Len(line) : Marked(line, k, m)
LevelOf(line) == CHOOSE k \in 1..Len(line) : \E m \in 1..Len(line) : Marked(line, k, m)
TextOf(line) ==
    LET m == CHOOSE m \in 1..Len(line) : Marked(line, LevelOf(line), m)
    IN  StripWs(SubSeq(line, LevelOf(line) + 1, Len(line) - m))
\* The nearest heading line before line j whose level is below level, as the
\* text recorded for it, or the title of the document
NearestLower(j, level) ==
    LET before == {h \in 0..(j - 1) : WellFormed(LineAt(h)) /\ LevelOf(LineAt(h)) < level}
    IN  IF before = {} THEN ArticleTitle
        ELSE TextOf(LineAt(CHOOSE h \in before : \A h2 \in before : h2 <= h))

\* C34: the entries of hierarchy_array have strictly increasing levels from
\* bottom to top; when a heading of level L is accepted it is put on top and
\* the parent recorded for it in headings_data is the nearest preceding
\* heading of a level below L, or the document title when there is none; a
\* line that is not a well-formed heading leaves both lists unchanged.
C34_HierarchyOfLines ==
    /\ [](\A i \in 1..(Len(ahier) - 1) : ahier[i].level < ahier[i + 1].level)
    /\ [][ai' # ai =>
            IF WellFormed(LineAt(ai))
            THEN /\ ahier' # <<>>
                 /\ ahier'[Len(ahier')] = [heading |-> TextOf(LineAt(ai)), line |-> ai,
                                           level |-> LevelOf(LineAt(ai))]
                 /\ Len(aheads') = Len(aheads) + 1
                 /\ SubSeq(aheads', 1, Len(aheads)) = aheads
                 /\ aheads'[Len(aheads')] =
                       [title |-> ArticleTitle, heading |-> TextOf(LineAt(ai)), line |-> ai,
                        parent |-> NearestLower(ai, LevelOf(LineAt(ai)))]
            ELSE ahier' = ahier /\ aheads' = aheads]_vars

\* C34 witness: three headings were accepted, the second under the first and
\* the third closing both, so that its parent is the document title.
C34_Witness ==
    /\ Len(aheads) = 3 /\ Len(ahier) = 1
    /\ aheads[2].parent = aheads[1].heading /\ aheads[3].parent = ArticleTitle

\* The records the producers have put into the writer: those of the calls
\* that have extended their buffer
InCall == UNION {Ids(pc[p].args) : p \in {q \in Producers : pc[q] # Idle}}
PassedIn == (1..(nextId - 1)) \ InCall
\* The number of places a record is in: positions of the two buffers and
\* rows of the submitted sub-batches
Places(id) ==
    Cardinality({i \in DOMAIN nodeBuf : nodeBuf[i].id = id})
    + Cardinality({i \in DOMAIN linkBuf : linkBuf[i].id = id})
    + Cardinality({ij \in (DOMAIN tasks) \X (1..BatchSize) :
                      ij[2] \in DOMAIN tasks[ij[1]].rows /\ tasks[ij[1]].rows[ij[2]].id = id})

\* C35: under any interleaving of write_nodes, write_links and flush calls
\* of concurrent producers, every record passed to the writer is in exactly
\* one place: in its buffer or in exactly one submitted sub-batch (as long
\* as no call raised, which only a call after close() does).
C35_RecordInOnePlace ==
    raised = {} => \A id \in PassedIn : Places(id) = 1

\* C35 witness: with both producers outside the writer, one record is in
\* the node buffer, one in the link buffer and one in a submitted sub-batch.
C35_Witness ==
    /\ raised = {} /\ cpc = "run" /\ \A p \in Producers : pc[p] = Idle
    /\ Len(nodeBuf) = 1 /\ Len(linkBuf) = 1 /\ Len(tasks) = 1
    /\ PassedIn = 1..MaxRecords

FailedTasks == {i \in DOMAIN tasks : tasks[i].st = "failed"}

\* C36: a worker task gives its permit back when its store write fails as
\* when it succeeds: the step that ends a write, either way, frees one
\* permit, and whenever no store write is in flight all max_concurrency
\* permits are free, whatever number of batches failed before.
C36_FailureReleasesPermit ==
    /\ [](Writing = {} => sem = MaxConcurrency)
    /\ [][\A i \in DOMAIN tasks :
            (tasks[i].st = "writing" /\ tasks'[i].st \in {"ok", "failed"}) => sem' = sem + 1]_vars

\* C36 witness: max_concurrency batches failed, a batch submitted after them
\* was written, and all permits are free again.
C36_Witness ==
    /\ Cardinality(FailedTasks) = MaxConcurrency
    /\ \E j \in DOMAIN tasks : tasks[j].st = "ok" /\ \A i \in FailedTasks : i < j
    /\ Writing = {} /\ sem = MaxConcurrency

\* C37: write_nodes leaves the link buffer as it is and submits no link
\* batch, write_links leaves the node buffer as it is and submits no node
\* batch, also when the call flushes its own buffer; a write call with an
\* empty list changes neither buffer and submits nothing.
C37_WriteTouchesOwnBuffer ==
    [][/\ \A p \in Producers :
            /\ (pc[p].op = "write_nodes" /\ pc'[p] = Idle) =>
                  /\ linkBuf' = linkBuf
                  /\ \A i \in DOMAIN AddedTasks : AddedTasks[i].label # "Links"
            /\ (pc[p].op = "write_links" /\ pc'[p] = Idle) =>
                  /\ nodeBuf' = nodeBuf
                  /\ \A i \in DOMAIN AddedTasks : AddedTasks[i].label = "Links"
       /\ emptyCalls' # emptyCalls =>
            nodeBuf' = nodeBuf /\ linkBuf' = linkBuf /\ tasks' = tasks]_vars

\* C37 witness: a write_nodes call flushed the node buffer while a link was
\* buffered, the link is still buffered and no link batch is submitted; a
\* write call with an empty list was made while records were buffered.
C37_Witness ==
    /\ \A p \in Producers : pc[p] = Idle
    /\ nodeBuf = <<>> /\ Len(linkBuf) = 1 /\ linkBuf[1].id = 1
    /\ tasks # <<>> /\ \A i \in DOMAIN tasks : tasks[i].label # "Links"
    /\ emptyCalls # <<>>

(***************************************************************************)
(* Claims about the uid of paragraph chunks (SpecUid).                     *)
(***************************************************************************)
\* C38: two paragraph chunks, of one page or of two, get the same uid key
\* only when they have the same document title, the same index and the same
\* content prefix.
C38_KeyIdentifiesTriple ==
    (Len(ukeys) = 2 /\ ukeys[1].key = ukeys[2].key) =>
        /\ uchunks[1].title = uchunks[2].title
        /\ uchunks[1].index = uchunks[2].index
        /\ ContentPrefix(uchunks[1].content) = ContentPrefix(uchunks[2].content)

\* The lines the iterations of the loop have consumed, with multiplicity
Consumed(j) == Cardinality({k \in DOMAIN asteps : asteps[k].from <= j /\ j < asteps[k].next})

\* C39: for every start_index below the number of lines get_next_glob
\* returns a next index above start_index and at most the number of lines;
\* parse_article terminates; and every line is consumed by exactly one
\* iteration: the iterations consume consecutive ranges of lines, a heading
\* and a skipped blank line one line each, and when parse_article returns
\* every line has been consumed once.
C39_GlobAdvances ==
    /\ [](\A s \in 0..(Len(alines) - 1) :
            LET r == get_next_glob(alines, s, ArticleTitle, ahier, aheads, amax)
            IN  s < r.next /\ r.next <= Len(alines))
    /\ [](/\ \A k \in DOMAIN asteps :
                /\ asteps[k].from = (IF k = 1 THEN 0 ELSE asteps[k - 1].next)
                /\ asteps[k].from < asteps[k].next
                /\ asteps[k].kind \in {"heading", "blank"} => asteps[k].next = asteps[k].from + 1
          /\ \A j \in 0..(Len(alines) - 1) : Consumed(j) = (IF j < ai THEN 1 ELSE 0)
          /\ apc = "done" => ai = Len(alines))
    /\ <>(apc = "done")

\* C39 witness: parse_article has returned from a file in which one glob
\* took several lines and another line was a heading or a skipped blank line.
C39_Witness ==
    /\ apc = "done"
    /\ \E k \in DOMAIN asteps : asteps[k].kind = "glob" /\ asteps[k].next > asteps[k].from + 1
    /\ \E k \in DOMAIN asteps : asteps[k].kind # "glob"

====
